---- MODULE Spec2Model ----
(***************************************************************************)
(* A model of cf-mailer, an SMTP submission client for Cloudflare Workers. *)
(*                                                                         *)
(* A JavaScript string is modelled as a sequence of one-character strings, *)
(* so that slicing, prefix tests, trimming and splitting are computed the  *)
(* way the code computes them.  The model alphabet is ASCII, where         *)
(* TextEncoder and TextDecoder map one character to one byte of the same   *)
(* value; the only character outside Latin-1 is "EURO" (U+20AC), which     *)
(* appears in credentials alone and reaches no encoder but btoa.           *)
(***************************************************************************)
EXTENDS Integers, Sequences, FiniteSets, TLC

CRLF == <<"\r", "\n">>

Digits == {"0", "1", "2", "3", "4", "5", "6", "7", "8", "9"}

DigitVal(c) ==
  CASE c = "0" -> 0 [] c = "1" -> 1 [] c = "2" -> 2 [] c = "3" -> 3
    [] c = "4" -> 4 [] c = "5" -> 5 [] c = "6" -> 6 [] c = "7" -> 7
    [] c = "8" -> 8 [] c = "9" -> 9

Whitespace == {" ", "\t", "\r", "\n"}

(* ---------------- String.prototype helpers the code uses --------------- *)

\* s.indexOf(c), 1-based; 0 when c does not occur
indexOf(s, c) ==
  IF \E i \in 1..Len(s) : s[i] = c
  THEN CHOOSE i \in 1..Len(s) : s[i] = c /\ \A j \in 1..(i - 1) : s[j] # c
  ELSE 0

includes(s, c) == \E i \in 1..Len(s) : s[i] = c

startsWith(s, p) == Len(s) >= Len(p) /\ SubSeq(s, 1, Len(p)) = p

\* s.slice(n) with n >= 0 counted from 0
sliceFrom(s, n) == SubSeq(s, n + 1, Len(s))

\* s.slice(0, n)
sliceTo(s, n) == SubSeq(s, 1, IF n < Len(s) THEN n ELSE Len(s))

RECURSIVE trimStart(_)
trimStart(s) ==
  IF s # <<>> /\ Head(s) \in Whitespace THEN trimStart(Tail(s)) ELSE s

RECURSIVE trimEnd(_)
trimEnd(s) ==
  IF s # <<>> /\ s[Len(s)] \in Whitespace
  THEN trimEnd(SubSeq(s, 1, Len(s) - 1))
  ELSE s

trim(s) == trimEnd(trimStart(s))

UpperOf(c) ==
  CASE c = "a" -> "A" [] c = "b" -> "B" [] c = "c" -> "C" [] c = "d" -> "D"
    [] c = "e" -> "E" [] c = "f" -> "F" [] c = "g" -> "G" [] c = "h" -> "H"
    [] c = "i" -> "I" [] c = "j" -> "J" [] c = "k" -> "K" [] c = "l" -> "L"
    [] c = "m" -> "M" [] c = "n" -> "N" [] c = "o" -> "O" [] c = "p" -> "P"
    [] c = "q" -> "Q" [] c = "r" -> "R" [] c = "s" -> "S" [] c = "t" -> "T"
    [] c = "u" -> "U" [] c = "v" -> "V" [] c = "w" -> "W" [] c = "x" -> "X"
    [] c = "y" -> "Y" [] c = "z" -> "Z" [] OTHER -> c

toUpperCase(s) == [i \in 1..Len(s) |-> UpperOf(s[i])]

\* lines.join(sep)
RECURSIVE join(_, _)
join(lines, sep) ==
  IF lines = <<>> THEN <<>>
  ELSE IF Len(lines) = 1 THEN lines[1]
  ELSE lines[1] \o sep \o join(Tail(lines), sep)

\* The first index >= from at which sep occurs in s; 0 when there is none
nextMatch(s, sep, from) ==
  LET hits == {i \in from..(Len(s) - Len(sep) + 1) : SubSeq(s, i, i + Len(sep) - 1) = sep}
  IN  IF hits = {} THEN 0 ELSE CHOOSE i \in hits : \A j \in hits : i <= j

\* s.split(sep) for a non-empty separator: always at least one piece
RECURSIVE splitFrom(_, _, _)
splitFrom(s, sep, from) ==
  LET i == nextMatch(s, sep, from)
  IN  IF i = 0
      THEN <<SubSeq(s, from, Len(s))>>
      ELSE <<SubSeq(s, from, i - 1)>> \o splitFrom(s, sep, i + Len(sep))

split(s, sep) == splitFrom(s, sep, 1)

\* s.split(/\s+/): a run of whitespace is one separator
RECURSIVE splitWsAcc(_, _)
splitWsAcc(s, cur) ==
  IF s = <<>> THEN <<cur>>
  ELSE IF Head(s) \in Whitespace
       THEN <<cur>> \o splitWsAcc(trimStart(s), <<>>)
       ELSE splitWsAcc(Tail(s), Append(cur, Head(s)))

splitWhitespace(s) == splitWsAcc(s, <<>>)

(* An optional string field (text?, html?, helo?): unset, or set to a value *)
Unset == [set |-> FALSE, value |-> <<>>]

Some(v) == [set |-> TRUE, value |-> v]

(* ------------------------- read-smtp-response.ts ------------------------ *)

\* rawLine.replace(/\r?\n$/, "")
stripEol(rawLine) ==
  LET n == Len(rawLine)
  IN  IF n >= 2 /\ rawLine[n - 1] = "\r" /\ rawLine[n] = "\n"
      THEN SubSeq(rawLine, 1, n - 2)
      ELSE IF n >= 1 /\ rawLine[n] = "\n"
           THEN SubSeq(rawLine, 1, n - 1)
           ELSE rawLine

\* A faulty readLine: when the stream ends, what is left in the buffer is
\* returned as a line
RECURSIVE readLineFlushes(_, _)
readLineFlushes(buffer, chunks) ==
  IF includes(buffer, "\n")
  THEN LET newlineIndex == indexOf(buffer, "\n")
       IN  [closed |-> FALSE,
            line   |-> stripEol(SubSeq(buffer, 1, newlineIndex)),
            buffer |-> SubSeq(buffer, newlineIndex + 1, Len(buffer)),
            chunks |-> chunks]
  ELSE IF chunks = <<>>
       THEN [closed |-> buffer = <<>>, line |-> buffer, buffer |-> <<>>, chunks |-> chunks]
       ELSE readLineFlushes(buffer \o Head(chunks), Tail(chunks))

\* readLine: pulls chunks until the buffer holds "\n"; a reader that is done
\* (no chunk left) makes it throw.  Returns the line, the rest of the buffer
\* and the chunks not yet read.
RECURSIVE readLine(_, _)
readLine(buffer, chunks) ==
  IF includes(buffer, "\n")
  THEN LET newlineIndex == indexOf(buffer, "\n")
       IN  [closed |-> FALSE,
            line   |-> stripEol(SubSeq(buffer, 1, newlineIndex)),
            buffer |-> SubSeq(buffer, newlineIndex + 1, Len(buffer)),
            chunks |-> chunks]
  ELSE IF chunks = <<>>
       THEN [closed |-> TRUE, line |-> <<>>, buffer |-> buffer, chunks |-> chunks]
       ELSE readLine(buffer \o Head(chunks), Tail(chunks))

RECURSIVE Pow10(_)
Pow10(k) == IF k = 0 THEN 1 ELSE 10 * Pow10(k - 1)

RECURSIVE DecVal(_)
DecVal(ds) ==
  IF ds = <<>> THEN 0
  ELSE 10 * DecVal(SubSeq(ds, 1, Len(ds) - 1)) + DigitVal(ds[Len(ds)])

AllDigits(s) == \A i \in 1..Len(s) : s[i] \in Digits

\* Number(codeStr) for a string of at most three characters over digits,
\* whitespace, sign, "e" and characters that make it NaN ("." and the radix
\* prefixes 0x, 0b, 0o are outside the model alphabet).
jsNumber(s) ==
  LET t == trim(s)
      u == IF t # <<>> /\ t[1] \in {"-", "+"} THEN Tail(t) ELSE t
      sign == IF t # <<>> /\ t[1] = "-" THEN -1 ELSE 1
  IN  IF t = <<>> THEN [finite |-> TRUE, value |-> 0]
      ELSE IF u # <<>> /\ AllDigits(u)
           THEN [finite |-> TRUE, value |-> sign * DecVal(u)]
      ELSE IF Len(u) = 3 /\ u[1] \in Digits /\ u[2] \in {"e", "E"} /\ u[3] \in Digits
           THEN [finite |-> TRUE, value |-> sign * DigitVal(u[1]) * Pow10(DigitVal(u[3]))]
      ELSE [finite |-> FALSE, value |-> 0]

\* A faulty readMore: any line with a space after its first three characters
\* ends the reply
RECURSIVE readMoreAnyFinal(_, _, _, _)
readMoreAnyFinal(codeStr, lines, buffer, chunks) ==
  LET r == readLine(buffer, chunks)
  IN  IF r.closed
      THEN [kind |-> "closed", code |-> 0, lines |-> lines,
            buffer |-> r.buffer, chunks |-> r.chunks]
      ELSE IF Len(r.line) >= 4 /\ r.line[4] = " "
           THEN [kind |-> "reply", code |-> jsNumber(codeStr).value,
                 lines |-> Append(lines, r.line),
                 buffer |-> r.buffer, chunks |-> r.chunks]
           ELSE readMoreAnyFinal(codeStr, Append(lines, r.line), r.buffer, r.chunks)

\* The loop over continuation lines of a multi-line reply
RECURSIVE readMore(_, _, _, _)
readMore(codeStr, lines, buffer, chunks) ==
  LET r == readLine(buffer, chunks)
  IN  IF r.closed
      THEN [kind |-> "closed", code |-> 0, lines |-> lines,
            buffer |-> r.buffer, chunks |-> r.chunks]
      ELSE IF startsWith(r.line, Append(codeStr, " "))
           THEN [kind |-> "reply", code |-> jsNumber(codeStr).value,
                 lines |-> Append(lines, r.line),
                 buffer |-> r.buffer, chunks |-> r.chunks]
           ELSE readMore(codeStr, Append(lines, r.line), r.buffer, r.chunks)

\* A faulty readSmtpResponse: the first line is returned whatever follows
\* its first three characters
readSmtpResponseFirstOnly(chunks) ==
  LET r == readLine(<<>>, chunks)
      first == r.line
      codeStr == sliceTo(first, 3)
      num == jsNumber(codeStr)
  IN  IF r.closed
      THEN [kind |-> "closed", code |-> 0, lines |-> <<>>,
            buffer |-> r.buffer, chunks |-> r.chunks]
      ELSE IF ~num.finite \/ Len(codeStr) # 3
           THEN [kind |-> "malformed", code |-> 0, lines |-> <<first>>,
                 buffer |-> r.buffer, chunks |-> r.chunks]
      ELSE [kind |-> "reply", code |-> num.value, lines |-> <<first>>,
            buffer |-> r.buffer, chunks |-> r.chunks]

\* readSmtpResponse on the chunks the reader will deliver: a reply
\* {code, lines}, or one of the two errors it throws.  buffer is the text
\* decoded but not returned (the call's local buffer, dropped on return);
\* chunks are the chunks left unread.
readSmtpResponse(chunks) ==
  LET r == readLine(<<>>, chunks)
      first == r.line
      codeStr == sliceTo(first, 3)
      num == jsNumber(codeStr)
  IN  IF r.closed
      THEN [kind |-> "closed", code |-> 0, lines |-> <<>>,
            buffer |-> r.buffer, chunks |-> r.chunks]
      ELSE IF ~num.finite \/ Len(codeStr) # 3
           THEN [kind |-> "malformed", code |-> 0, lines |-> <<first>>,
                 buffer |-> r.buffer, chunks |-> r.chunks]
      ELSE IF ~(Len(first) >= 4 /\ first[4] = "-")
           THEN [kind |-> "reply", code |-> num.value, lines |-> <<first>>,
                 buffer |-> r.buffer, chunks |-> r.chunks]
      ELSE readMore(codeStr, <<first>>, r.buffer, r.chunks)

(* -------------------------- assert-smtp-ok.ts --------------------------- *)

\* A faulty assertSmtpOk: any positive completion or intermediate code passes
assertSmtpOkAnyPositive(response, expectedCodes) == response.code \in 200..399

\* assertSmtpOk: TRUE when it returns, FALSE when it throws
assertSmtpOk(response, expectedCodes) == response.code \in expectedCodes

\* The Error it throws: `${context} failed with code ${code}: ${lines.join(" | ")}`
assertSmtpOkError(response, context) ==
  [kind |-> "assert", context |-> context, code |-> response.code,
   lines |-> response.lines]

(* ---------------------- get-smtp-secure-transport.ts -------------------- *)

\* A faulty getSmtpSecureTransport: an explicit `secure` wins over the port
getSmtpSecureTransportSecureFirst(port, secure) ==
  IF secure = "true" THEN "on"
  ELSE IF secure = "false" THEN "off"
  ELSE IF port = 465 THEN "on"
  ELSE IF port = 587 THEN "starttls"
  ELSE "off"

getSmtpSecureTransport(port, secure) ==
  IF port = 465 THEN "on"
  ELSE IF port = 587 THEN "starttls"
  ELSE IF secure = "true" THEN "on"
  ELSE IF secure = "false" THEN "off"
  ELSE "off"

(* ----------------------- parse-smtp-capabilities.ts --------------------- *)

\* line.replace(/^\d{3}[ -]/, "")
stripCode(line) ==
  IF Len(line) >= 4 /\ AllDigits(SubSeq(line, 1, 3)) /\ line[4] \in {" ", "-"}
  THEN sliceFrom(line, 4)
  ELSE line

\* A faulty normalizeLine: the line keeps the letter case the server used
normalizeLineKeepCase(line) == trim(stripCode(line))

normalizeLine(line) == toUpperCase(trim(stripCode(line)))

seqIncludes(seq, x) == \E i \in 1..Len(seq) : seq[i] = x

parseSmtpCapabilities(ehlo) ==
  LET normalized == SelectSeq([i \in 1..Len(ehlo.lines) |-> normalizeLine(ehlo.lines[i])],
                              LAMBDA line : Len(line) > 0)
      isAuth(line) == startsWith(line, <<"A", "U", "T", "H", " ">>)
      found == \E i \in 1..Len(normalized) : isAuth(normalized[i])
      authLine == normalized[CHOOSE i \in 1..Len(normalized) :
                     isAuth(normalized[i]) /\ \A j \in 1..(i - 1) : ~isAuth(normalized[j])]
      methods == IF found THEN splitWhitespace(sliceFrom(authLine, 5)) ELSE <<>>
  IN  [plain |-> seqIncludes(methods, <<"P", "L", "A", "I", "N">>),
       login |-> seqIncludes(methods, <<"L", "O", "G", "I", "N">>)]

(* ------------------------------- btoa ----------------------------------- *)

\* The code unit of a character that can occur in credentials; "NUL" stands
\* for U+0000 and "EURO" for U+20AC.
CharCode(c) ==
  CASE c = "NUL" -> 0 [] c = "u" -> 117 [] c = "p" -> 112 [] c = "w" -> 119
    [] c = "EURO" -> 8364

B64Alphabet ==
  <<"A", "B", "C", "D", "E", "F", "G", "H", "I", "J", "K", "L", "M", "N", "O", "P", "Q", "R", "S", "T", "U", "V", "W", "X", "Y", "Z", "a", "b", "c", "d", "e", "f", "g", "h", "i", "j", "k", "l", "m", "n", "o", "p", "q", "r", "s", "t", "u", "v", "w", "x", "y", "z", "0", "1", "2", "3", "4", "5", "6", "7", "8", "9", "+", "/">>

B64(n) == B64Alphabet[n + 1]

RECURSIVE base64(_)
base64(bytes) ==
  IF bytes = <<>> THEN <<>>
  ELSE IF Len(bytes) = 1
       THEN <<B64(bytes[1] \div 4), B64((bytes[1] % 4) * 16), "=", "=">>
  ELSE IF Len(bytes) = 2
       THEN <<B64(bytes[1] \div 4), B64((bytes[1] % 4) * 16 + bytes[2] \div 16),
              B64((bytes[2] % 16) * 4), "=">>
  ELSE <<B64(bytes[1] \div 4), B64((bytes[1] % 4) * 16 + bytes[2] \div 16),
         B64((bytes[2] % 16) * 4 + bytes[3] \div 64), B64(bytes[3] % 64)>>
       \o base64(SubSeq(bytes, 4, Len(bytes)))

\* btoa(s): base64 of the code units of s; throws InvalidCharacterError when
\* a code unit is above 255
btoa(s) ==
  LET codes == [i \in 1..Len(s) |-> CharCode(s[i])]
  IN  IF \E i \in 1..Len(s) : codes[i] > 255
      THEN [threw |-> TRUE, value |-> <<>>]
      ELSE [threw |-> FALSE, value |-> base64(codes)]

(* ----------------------------- dot-stuff.ts ----------------------------- *)

\* A faulty dotStuff: only a line that is a single dot is stuffed
dotStuffSingleDot(message) ==
  LET parts == split(message, CRLF)
  IN  join([i \in 1..Len(parts) |->
              IF parts[i] = <<".">> THEN <<".">> \o parts[i] ELSE parts[i]],
           CRLF)

\* A faulty dotStuff: a line that is a dot and nothing else is left alone
dotStuffLongLines(message) ==
  LET parts == split(message, CRLF)
  IN  join([i \in 1..Len(parts) |->
              IF startsWith(parts[i], <<".">>) /\ Len(parts[i]) > 1
              THEN <<".">> \o parts[i] ELSE parts[i]],
           CRLF)

dotStuff(message) ==
  LET parts == split(message, CRLF)
  IN  join([i \in 1..Len(parts) |->
              IF startsWith(parts[i], <<".">>) THEN <<".">> \o parts[i] ELSE parts[i]],
           CRLF)

(* --------------------------- create-message.ts -------------------------- *)

\* A faulty createMessage: html wins whenever it is there, no alternative
\* of the text is built
createMessageHtmlWins(from, to, subject, text, html, uuid) ==
  LET headers == << <<"F", "r", "o", "m", ":", " ">> \o from,
                    <<"T", "o", ":", " ">> \o join(to, <<",", " ">>),
                    <<"S", "u", "b", "j", "e", "c", "t", ":", " ">> \o subject,
                    <<"M", "I", "M", "E", "-", "V", "e", "r", "s", "i", "o", "n", ":", " ", "1", ".", "0">> >>
  IN  IF html.set /\ html.value # <<>>
      THEN join(Append(headers, <<"C", "o", "n", "t", "e", "n", "t", "-", "T", "y", "p", "e", ":", " ", "t", "e", "x", "t", "/", "h", "t", "m", "l", ";", " ", "c", "h", "a", "r", "s", "e", "t", "=", "\"", "u", "t", "f", "-", "8", "\"">>), CRLF)
           \o CRLF \o CRLF \o html.value
      ELSE join(Append(headers, <<"C", "o", "n", "t", "e", "n", "t", "-", "T", "y", "p", "e", ":", " ", "t", "e", "x", "t", "/", "p", "l", "a", "i", "n", ";", " ", "c", "h", "a", "r", "s", "e", "t", "=", "\"", "u", "t", "f", "-", "8", "\"">>), CRLF)
           \o CRLF \o CRLF \o (IF text.set THEN text.value ELSE <<>>)

\* createMessage; uuid is what crypto.randomUUID() returns for the boundary
createMessage(from, to, subject, text, html, uuid) ==
  LET headers == << <<"F", "r", "o", "m", ":", " ">> \o from,
                    <<"T", "o", ":", " ">> \o join(to, <<",", " ">>),
                    <<"S", "u", "b", "j", "e", "c", "t", ":", " ">> \o subject,
                    <<"M", "I", "M", "E", "-", "V", "e", "r", "s", "i", "o", "n", ":", " ", "1", ".", "0">> >>
      both == html.set /\ html.value # <<>> /\ text.set /\ text.value # <<>>
      boundary == <<"c", "f", "-", "m", "a", "i", "l", "e", "r", "-">> \o uuid
      parts == << <<"-", "-">> \o boundary,
                  <<"C", "o", "n", "t", "e", "n", "t", "-", "T", "y", "p", "e", ":", " ", "t", "e", "x", "t", "/", "p", "l", "a", "i", "n", ";", " ", "c", "h", "a", "r", "s", "e", "t", "=", "\"", "u", "t", "f", "-", "8", "\"">>,
                  <<>>,
                  text.value,
                  <<"-", "-">> \o boundary,
                  <<"C", "o", "n", "t", "e", "n", "t", "-", "T", "y", "p", "e", ":", " ", "t", "e", "x", "t", "/", "h", "t", "m", "l", ";", " ", "c", "h", "a", "r", "s", "e", "t", "=", "\"", "u", "t", "f", "-", "8", "\"">>,
                  <<>>,
                  html.value,
                  <<"-", "-">> \o boundary \o <<"-", "-">> >>
  IN  IF both
      THEN join(Append(headers, <<"C", "o", "n", "t", "e", "n", "t", "-", "T", "y", "p", "e", ":", " ", "m", "u", "l", "t", "i", "p", "a", "r", "t", "/", "a", "l", "t", "e", "r", "n", "a", "t", "i", "v", "e", ";", " ", "b", "o", "u", "n", "d", "a", "r", "y", "=", "\"">>
                                 \o boundary \o <<"\"">>), CRLF)
           \o CRLF \o CRLF \o join(parts, CRLF)
      ELSE IF html.set /\ html.value # <<>>
           THEN join(Append(headers, <<"C", "o", "n", "t", "e", "n", "t", "-", "T", "y", "p", "e", ":", " ", "t", "e", "x", "t", "/", "h", "t", "m", "l", ";", " ", "c", "h", "a", "r", "s", "e", "t", "=", "\"", "u", "t", "f", "-", "8", "\"">>), CRLF)
                \o CRLF \o CRLF \o html.value
      ELSE join(Append(headers, <<"C", "o", "n", "t", "e", "n", "t", "-", "T", "y", "p", "e", ":", " ", "t", "e", "x", "t", "/", "p", "l", "a", "i", "n", ";", " ", "c", "h", "a", "r", "s", "e", "t", "=", "\"", "u", "t", "f", "-", "8", "\"">>), CRLF)
           \o CRLF \o CRLF \o (IF text.set THEN text.value ELSE <<>>)

(* ============================ the session =============================== *)

\* Bounds of the model
MaxRcpt == 2

\* Inputs: createMailer's config and send's input, as the schemas of
\* validateMailerConfig and validateSendMailInput accept them
Ports == {25, 465, 587, 2525}

Secures == {"true", "false", "unset"}

Helos == {Unset, Some(<<"m", "x">>)}

NoAuth == [set |-> FALSE, user |-> <<>>, pass |-> <<>>]

Auths ==
  { NoAuth,
    [set |-> TRUE, user |-> <<"u">>, pass |-> <<"p", "w">>],
    [set |-> TRUE, user |-> <<"EURO">>, pass |-> <<"p", "w">>] }

Configs ==
  [port : Ports, secure : Secures, helo : Helos, auth : Auths]

\* The i-th recipient address, r<i>@x
RcptAddr(i) == <<"r", CHOOSE d \in Digits : DigitVal(d) = i, "@", "x">>

RcptList(n) == [i \in 1..n |-> RcptAddr(i)]

\* `to` is a string or a non-empty array of strings
Tos ==
  {[isArray |-> FALSE, str |-> RcptAddr(1), arr |-> <<>>]}
  \cup {[isArray |-> TRUE, str |-> <<>>, arr |-> RcptList(n)] : n \in 1..MaxRcpt}

Contents ==
  { [text |-> Some(<<".", "a", "\r", "\n", ".">>), html |-> Unset],
    [text |-> Some(<<"t">>), html |-> Some(<<"<", "p", ">">>)] }

SendInputs ==
  { [from |-> <<"s", "@", "x">>, to |-> t, subject |-> <<"H", "i">>, text |-> c.text, html |-> c.html] :
      t \in Tos, c \in Contents }

\* What crypto.randomUUID() can return
Uuids == {<<"1", "a">>, <<"2", "b">>}

\* What the server can put on the wire for one read of the client, as the
\* chunks the reader delivers; no chunk left means the stream has closed.
CapabilityStreams ==
  { << <<"2", "5", "0", "-", "m", "x", "\r", "\n", "2", "5", "0", "-", "A", "U", "T", "H", " ", "P", "L", "A", "I", "N", " ", "L", "O", "G", "I", "N", "\r", "\n">>, <<"2", "5", "0", " ", "S", "I", "Z", "E", " ", "9", "\r", "\n">> >>,
    << <<"2", "5", "0", "-", "m", "x", "\r", "\n", "2", "5", "0", " ", "a", "u", "t", "h", " ", "l", "o", "g", "i", "n", "\r", "\n">> >>,
    << <<"2", "5", "0", " ", "A", "U", "T", "H", " ", "P", "L", "A", "I", "N", "\r", "\n">> >> }

BaseStreams ==
  { << <<"2", "2", "0", " ", "h", "i", "\r", "\n">> >>, << <<"2", "5", "0", " ", "o", "k", "\r", "\n">> >>, << <<"2", "5", "1", " ", "f", "w", "d", "\r", "\n">> >>,
    << <<"3", "5", "4", " ", "g", "o", "\r", "\n">> >>, << <<"2", "3", "5", " ", "o", "k", "\r", "\n">> >>, << <<"3", "3", "4", " ", "x", "\r", "\n">> >>,
    << <<"5", "5", "0", " ", "n", "o", "\r", "\n">> >>, << <<"x", "y", "z", "\r", "\n">> >>, << <<"2", "5">> >>, << >> }

\* Capability lines answer EHLO only
ServerStreams(afterEhlo) ==
  IF afterEhlo THEN BaseStreams \cup CapabilityStreams ELSE BaseStreams

VARIABLES
  config,           \* parsedConfig of the mailer
  input,            \* the input send() was called with
  mail,             \* input.mail of the running smtpSendMail
  pc,               \* where the send is
  secureTransport,  \* getSmtpSecureTransport's answer
  socket,           \* the socket connect() returned
  secureSocket,     \* the socket startTls() returned
  locks,            \* reader/writer locks taken on the two sockets
  io,               \* every read and write of the send, in order
  ehlo,             \* reply to the first EHLO
  tlsEhlo,          \* reply to the EHLO sent after the upgrade
  capabilities,     \* parseSmtpCapabilities(ehlo)
  tlsCapabilities,  \* parseSmtpCapabilities(tlsEhlo)
  rcpt,             \* index of the recipient the loop is at
  result,           \* what the send returned or threw
  other,            \* a second send of the same mailer, waiting at an await
  call              \* a function of the library called on its own

vars ==
  <<config, input, mail, pc, secureTransport, socket, secureSocket, locks, io, ehlo,
    tlsEhlo, capabilities, tlsCapabilities, rcpt, result, other, call>>

NoReply == [code |-> 0, lines |-> <<>>]

NoCapabilities == [plain |-> FALSE, login |-> FALSE]

NoError == [kind |-> "none", context |-> "", code |-> 0, lines |-> <<>>]

NoInput ==
  [from |-> <<>>, to |-> [isArray |-> FALSE, str |-> <<>>, arr |-> <<>>],
   subject |-> <<>>, text |-> Unset, html |-> Unset]

NoMail == [from |-> <<>>, to |-> <<>>, subject |-> <<>>, text |-> Unset, html |-> Unset]

\* No function is being called on its own
NoCall == [fn |-> "none", arg |-> <<>>, ret |-> <<>>, done |-> FALSE]

Pending == [kind |-> "pending", messageId |-> <<>>, error |-> NoError]

Returned(id) == [kind |-> "returned", messageId |-> id, error |-> NoError]

Threw(e) == [kind |-> "threw", messageId |-> <<>>, error |-> e]

\* The errors thrown by code other than assertSmtpOk
PlainError(kind) == [kind |-> kind, context |-> "", code |-> 0, lines |-> <<>>]

\* readSmtpResponse's two errors
readError(response) ==
  IF response.kind = "closed"
  THEN PlainError("SMTP connection closed unexpectedly")
  ELSE [kind |-> "Invalid SMTP response line", context |-> "", code |-> 0,
        lines |-> response.lines]

\* The locals of an invocation of send that has not started
Idle ==
  [input |-> NoInput, mail |-> NoMail, pc |-> "idle", secureTransport |-> "unset",
   socket |-> "none", secureSocket |-> "none",
   locks |-> [reader |-> "none", writer |-> "none", tlsReader |-> "none",
              tlsWriter |-> "none"],
   io |-> <<>>, ehlo |-> NoReply, tlsEhlo |-> NoReply, capabilities |-> NoCapabilities,
   tlsCapabilities |-> NoCapabilities, rcpt |-> 0, result |-> Pending]

\* No second send
NoOther == [there |-> FALSE, send |-> Idle]

Init ==
  /\ config \in Configs
  /\ input = NoInput
  /\ mail = NoMail
  /\ pc = "idle"
  /\ secureTransport = "unset"
  /\ socket = "none"
  /\ secureSocket = "none"
  /\ locks = [reader |-> "none", writer |-> "none", tlsReader |-> "none", tlsWriter |-> "none"]
  /\ io = <<>>
  /\ ehlo = NoReply
  /\ tlsEhlo = NoReply
  /\ capabilities = NoCapabilities
  /\ tlsCapabilities = NoCapabilities
  /\ rcpt = 0
  /\ result = Pending
  /\ other = NoOther
  /\ call = NoCall

\* A faulty session: the STARTTLS block keeps writing through the old writer
sessionOldWriter ==
  IF secureTransport = "starttls"
  THEN [reader |-> "tlsReader", writer |-> "writer", socket |-> "secureSocket",
        capabilities |-> tlsCapabilities]
  ELSE [reader |-> "reader", writer |-> "writer", socket |-> "socket",
        capabilities |-> capabilities]

\* A faulty session: smtpAuth is handed the capabilities of the first EHLO
sessionFirstCapabilities ==
  IF secureTransport = "starttls"
  THEN [reader |-> "tlsReader", writer |-> "tlsWriter", socket |-> "secureSocket",
        capabilities |-> capabilities]
  ELSE [reader |-> "reader", writer |-> "writer", socket |-> "socket",
        capabilities |-> capabilities]

\* The handles and capabilities the steps after the handshake are bound to:
\* those of the upgraded socket inside the STARTTLS block, those of the
\* first socket after it.
session ==
  IF secureTransport = "starttls"
  THEN [reader |-> "tlsReader", writer |-> "tlsWriter", socket |-> "secureSocket",
        capabilities |-> tlsCapabilities]
  ELSE [reader |-> "reader", writer |-> "writer", socket |-> "socket",
        capabilities |-> capabilities]

heloName == IF config.helo.set THEN config.helo.value ELSE <<"l", "o", "c", "a", "l", "h", "o", "s", "t">>

\* A write of `data` through writer `via`: the promise resolves, or rejects
\* when the stream has errored
write(via, data, next) ==
  \E ok \in BOOLEAN :
    /\ io' = Append(io, [op |-> "write", via |-> via, at |-> pc, data |-> data,
                         kind |-> IF ok THEN "ok" ELSE "failed",
                         code |-> 0, lines |-> <<>>])
    /\ IF ok
       THEN pc' = next /\ result' = result
       ELSE pc' = "done" /\ result' = Threw(PlainError("write rejected"))

\* writeSmtpCommand: one write of the command and CRLF
writeSmtpCommand(via, command, next) == write(via, command \o CRLF, next)

\* The record of a readSmtpResponse call in io
readEvent(via, response) ==
  [op |-> "read", via |-> via, at |-> pc, data |-> <<>>, kind |-> response.kind,
   code |-> response.code, lines |-> response.lines]

\* A readSmtpResponse followed by assertSmtpOk, as every stage but QUIT does
expect(via, response, expectedCodes, context, next) ==
  /\ io' = Append(io, readEvent(via, response))
  /\ IF response.kind # "reply"
     THEN pc' = "done" /\ result' = Threw(readError(response))
     ELSE IF ~assertSmtpOk(response, expectedCodes)
          THEN pc' = "done" /\ result' = Threw(assertSmtpOkError(response, context))
          ELSE pc' = next /\ result' = result

\* Where the send goes once the handshake is over
afterHandshake == IF config.auth.set THEN "auth" ELSE "mailFrom_write"

\* A faulty Send: the port is checked after connect()
SendConnectsFirst ==
  /\ pc = "idle"
  /\ \E parsed \in SendInputs :
       /\ input' = parsed
       /\ mail' = [from |-> parsed.from,
                   to |-> IF parsed.to.isArray THEN parsed.to.arr ELSE <<parsed.to.str>>,
                   subject |-> parsed.subject, text |-> parsed.text, html |-> parsed.html]
  /\ secureTransport' = getSmtpSecureTransport(config.port, config.secure)
  /\ socket' = "open"
  /\ locks' = [locks EXCEPT !.reader = "held", !.writer = "held"]
  /\ IF config.port = 25
     THEN /\ pc' = "done"
          /\ result' = Threw(PlainError("Port 25 is not supported on Cloudflare Workers"))
     ELSE /\ pc' = "greeting_read"
          /\ result' = result
  /\ UNCHANGED <<call, other, config, secureSocket, io, ehlo, tlsEhlo, capabilities,
                 tlsCapabilities, rcpt>>

(* mailer.send(input): validateSendMailInput, `to` made an array, then
   smtpSendMail up to its first await: the port check, the transport mode,
   connect() and the reader and writer of the socket *)
Send ==
  /\ pc = "idle"
  /\ \E parsed \in SendInputs :
       /\ input' = parsed
       /\ mail' = [from |-> parsed.from,
                   to |-> IF parsed.to.isArray THEN parsed.to.arr ELSE <<parsed.to.str>>,
                   subject |-> parsed.subject, text |-> parsed.text, html |-> parsed.html]
  /\ IF config.port = 25
     THEN /\ pc' = "done"
          /\ result' = Threw(PlainError("Port 25 is not supported on Cloudflare Workers"))
          /\ UNCHANGED <<secureTransport, socket, locks>>
     ELSE /\ secureTransport' = getSmtpSecureTransport(config.port, config.secure)
          /\ socket' = "open"
          /\ locks' = [locks EXCEPT !.reader = "held", !.writer = "held"]
          /\ pc' = "greeting_read"
          /\ result' = result
  /\ UNCHANGED <<call, other, config, secureSocket, io, ehlo, tlsEhlo, capabilities,
                 tlsCapabilities, rcpt>>

ReadGreeting ==
  /\ pc = "greeting_read"
  /\ \E chunks \in ServerStreams(FALSE) :
       expect("reader", readSmtpResponse(chunks), {220}, "Greeting", "ehlo_write")
  /\ UNCHANGED <<call, other, config, input, mail, secureTransport, socket, secureSocket, locks,
                 ehlo, tlsEhlo, capabilities, tlsCapabilities, rcpt>>

WriteEhlo ==
  /\ pc = "ehlo_write"
  /\ writeSmtpCommand("writer", <<"E", "H", "L", "O", " ">> \o heloName, "ehlo_read")
  /\ UNCHANGED <<call, other, config, input, mail, secureTransport, socket, secureSocket, locks,
                 ehlo, tlsEhlo, capabilities, tlsCapabilities, rcpt>>

ReadEhlo ==
  /\ pc = "ehlo_read"
  /\ \E chunks \in ServerStreams(TRUE) :
       LET response == readSmtpResponse(chunks)
       IN  /\ expect("reader", response, {250}, "EHLO",
                     IF secureTransport = "starttls" THEN "starttls_write"
                     ELSE afterHandshake)
           /\ ehlo' = IF response.kind = "reply"
                      THEN [code |-> response.code, lines |-> response.lines]
                      ELSE ehlo
           /\ capabilities' = IF response.kind = "reply" /\ assertSmtpOk(response, {250})
                              THEN parseSmtpCapabilities(response)
                              ELSE capabilities
  /\ UNCHANGED <<call, other, config, input, mail, secureTransport, socket, secureSocket, locks,
                 tlsEhlo, tlsCapabilities, rcpt>>

WriteStartTls ==
  /\ pc = "starttls_write"
  /\ writeSmtpCommand("writer", <<"S", "T", "A", "R", "T", "T", "L", "S">>, "starttls_read")
  /\ UNCHANGED <<call, other, config, input, mail, secureTransport, socket, secureSocket, locks,
                 ehlo, tlsEhlo, capabilities, tlsCapabilities, rcpt>>

(* The reply to STARTTLS, then socket.startTls(), the release of the old
   reader and writer and the reader and writer of the secure socket *)
ReadStartTls ==
  /\ pc = "starttls_read"
  /\ \E chunks \in ServerStreams(FALSE) :
       LET response == readSmtpResponse(chunks)
           upgraded == response.kind = "reply" /\ assertSmtpOk(response, {220})
       IN  /\ expect("reader", response, {220}, "STARTTLS", "tlsEhlo_write")
           /\ socket' = IF upgraded THEN "upgraded" ELSE socket
           /\ secureSocket' = IF upgraded THEN "open" ELSE secureSocket
           /\ locks' = IF upgraded
                       THEN [reader |-> "released", writer |-> "released",
                             tlsReader |-> "held", tlsWriter |-> "held"]
                       ELSE locks
  /\ UNCHANGED <<call, other, config, input, mail, secureTransport, ehlo, tlsEhlo, capabilities,
                 tlsCapabilities, rcpt>>

WriteTlsEhlo ==
  /\ pc = "tlsEhlo_write"
  /\ writeSmtpCommand("tlsWriter", <<"E", "H", "L", "O", " ">> \o heloName, "tlsEhlo_read")
  /\ UNCHANGED <<call, other, config, input, mail, secureTransport, socket, secureSocket, locks,
                 ehlo, tlsEhlo, capabilities, tlsCapabilities, rcpt>>

ReadTlsEhlo ==
  /\ pc = "tlsEhlo_read"
  /\ \E chunks \in ServerStreams(TRUE) :
       LET response == readSmtpResponse(chunks)
       IN  /\ expect("tlsReader", response, {250}, "EHLO (TLS)", afterHandshake)
           /\ tlsEhlo' = IF response.kind = "reply"
                         THEN [code |-> response.code, lines |-> response.lines]
                         ELSE tlsEhlo
           /\ tlsCapabilities' = IF response.kind = "reply" /\ assertSmtpOk(response, {250})
                                 THEN parseSmtpCapabilities(response)
                                 ELSE tlsCapabilities
  /\ UNCHANGED <<call, other, config, input, mail, secureTransport, socket, secureSocket, locks,
                 ehlo, capabilities, rcpt>>

(* ------------------------------ smtp-auth.ts ---------------------------- *)

\* capabilities.auth.plain: btoa of NUL user NUL pass, then AUTH PLAIN
AuthPlainWrite ==
  /\ pc = "auth"
  /\ session.capabilities.plain
  /\ LET authPlain == btoa(<<"NUL">> \o config.auth.user \o <<"NUL">> \o config.auth.pass)
     IN  IF authPlain.threw
         THEN pc' = "done" /\ result' = Threw(PlainError("InvalidCharacterError"))
              /\ io' = io
         ELSE writeSmtpCommand(session.writer, <<"A", "U", "T", "H", " ", "P", "L", "A", "I", "N", " ">> \o authPlain.value,
                               "authPlain_read")
  /\ UNCHANGED <<call, other, config, input, mail, secureTransport, socket, secureSocket, locks,
                 ehlo, tlsEhlo, capabilities, tlsCapabilities, rcpt>>

AuthPlainRead ==
  /\ pc = "authPlain_read"
  /\ \E chunks \in ServerStreams(FALSE) :
       expect(session.reader, readSmtpResponse(chunks), {235}, "AUTH PLAIN",
              "mailFrom_write")
  /\ UNCHANGED <<call, other, config, input, mail, secureTransport, socket, secureSocket, locks,
                 ehlo, tlsEhlo, capabilities, tlsCapabilities, rcpt>>

AuthLoginWrite ==
  /\ pc = "auth"
  /\ ~session.capabilities.plain
  /\ session.capabilities.login
  /\ writeSmtpCommand(session.writer, <<"A", "U", "T", "H", " ", "L", "O", "G", "I", "N">>, "authLogin_read")
  /\ UNCHANGED <<call, other, config, input, mail, secureTransport, socket, secureSocket, locks,
                 ehlo, tlsEhlo, capabilities, tlsCapabilities, rcpt>>

AuthLoginReadChallengeUser ==
  /\ pc = "authLogin_read"
  /\ \E chunks \in ServerStreams(FALSE) :
       expect(session.reader, readSmtpResponse(chunks), {334},
              "AUTH LOGIN (challenge user)", "authUser_write")
  /\ UNCHANGED <<call, other, config, input, mail, secureTransport, socket, secureSocket, locks,
                 ehlo, tlsEhlo, capabilities, tlsCapabilities, rcpt>>

AuthLoginWriteUser ==
  /\ pc = "authUser_write"
  /\ LET user == btoa(config.auth.user)
     IN  IF user.threw
         THEN pc' = "done" /\ result' = Threw(PlainError("InvalidCharacterError"))
              /\ io' = io
         ELSE writeSmtpCommand(session.writer, user.value, "authUser_read")
  /\ UNCHANGED <<call, other, config, input, mail, secureTransport, socket, secureSocket, locks,
                 ehlo, tlsEhlo, capabilities, tlsCapabilities, rcpt>>

AuthLoginReadChallengePass ==
  /\ pc = "authUser_read"
  /\ \E chunks \in ServerStreams(FALSE) :
       expect(session.reader, readSmtpResponse(chunks), {334},
              "AUTH LOGIN (challenge pass)", "authPass_write")
  /\ UNCHANGED <<call, other, config, input, mail, secureTransport, socket, secureSocket, locks,
                 ehlo, tlsEhlo, capabilities, tlsCapabilities, rcpt>>

AuthLoginWritePass ==
  /\ pc = "authPass_write"
  /\ LET pass == btoa(config.auth.pass)
     IN  IF pass.threw
         THEN pc' = "done" /\ result' = Threw(PlainError("InvalidCharacterError"))
              /\ io' = io
         ELSE writeSmtpCommand(session.writer, pass.value, "authPass_read")
  /\ UNCHANGED <<call, other, config, input, mail, secureTransport, socket, secureSocket, locks,
                 ehlo, tlsEhlo, capabilities, tlsCapabilities, rcpt>>

AuthLoginReadOk ==
  /\ pc = "authPass_read"
  /\ \E chunks \in ServerStreams(FALSE) :
       expect(session.reader, readSmtpResponse(chunks), {235}, "AUTH LOGIN",
              "mailFrom_write")
  /\ UNCHANGED <<call, other, config, input, mail, secureTransport, socket, secureSocket, locks,
                 ehlo, tlsEhlo, capabilities, tlsCapabilities, rcpt>>

\* A faulty AuthUnsupported: with nothing advertised it tries AUTH PLAIN anyway
AuthUnsupportedGuesses ==
  /\ pc = "auth"
  /\ ~session.capabilities.plain
  /\ ~session.capabilities.login
  /\ writeSmtpCommand(session.writer, <<"A", "U", "T", "H", " ", "P", "L", "A", "I", "N">>, "authPlain_read")
  /\ UNCHANGED <<call, other, config, input, mail, secureTransport, socket, secureSocket, locks,
                 ehlo, tlsEhlo, capabilities, tlsCapabilities, rcpt>>

AuthUnsupported ==
  /\ pc = "auth"
  /\ ~session.capabilities.plain
  /\ ~session.capabilities.login
  /\ pc' = "done"
  /\ result' = Threw(PlainError("SMTP server does not support AUTH PLAIN or AUTH LOGIN"))
  /\ UNCHANGED <<call, other, config, input, mail, secureTransport, socket, secureSocket, locks,
                 io, ehlo, tlsEhlo, capabilities, tlsCapabilities, rcpt>>

(* ------------------- smtpSendMail: envelope and body -------------------- *)

WriteMailFrom ==
  /\ pc = "mailFrom_write"
  /\ writeSmtpCommand(session.writer, <<"M", "A", "I", "L", " ", "F", "R", "O", "M", ":", "<">> \o mail.from \o <<">">>,
                      "mailFrom_read")
  /\ UNCHANGED <<call, other, config, input, mail, secureTransport, socket, secureSocket, locks,
                 ehlo, tlsEhlo, capabilities, tlsCapabilities, rcpt>>

\* A faulty ReadMailFrom: the reply to MAIL FROM is not awaited
ReadMailFromSkipped ==
  /\ pc = "mailFrom_read"
  /\ pc' = IF Len(mail.to) >= 1 THEN "rcpt_write" ELSE "data_write"
  /\ rcpt' = 1
  /\ UNCHANGED <<call, other, config, input, mail, secureTransport, socket, secureSocket, locks,
                 io, ehlo, tlsEhlo, capabilities, tlsCapabilities, result>>

\* After MAIL FROM the loop over input.mail.to starts (an empty list would
\* go straight to DATA)
ReadMailFrom ==
  /\ pc = "mailFrom_read"
  /\ \E chunks \in ServerStreams(FALSE) :
       expect(session.reader, readSmtpResponse(chunks), {250}, "MAIL FROM",
              IF Len(mail.to) >= 1 THEN "rcpt_write" ELSE "data_write")
  /\ rcpt' = 1
  /\ UNCHANGED <<call, other, config, input, mail, secureTransport, socket, secureSocket, locks,
                 ehlo, tlsEhlo, capabilities, tlsCapabilities>>

\* A faulty WriteRcpt: every RCPT TO names the first recipient
WriteRcptFirst ==
  /\ pc = "rcpt_write"
  /\ writeSmtpCommand(session.writer, <<"R", "C", "P", "T", " ", "T", "O", ":", "<">> \o mail.to[1] \o <<">">>,
                      "rcpt_read")
  /\ UNCHANGED <<call, other, config, input, mail, secureTransport, socket, secureSocket, locks,
                 ehlo, tlsEhlo, capabilities, tlsCapabilities, rcpt>>

WriteRcpt ==
  /\ pc = "rcpt_write"
  /\ writeSmtpCommand(session.writer, <<"R", "C", "P", "T", " ", "T", "O", ":", "<">> \o mail.to[rcpt] \o <<">">>,
                      "rcpt_read")
  /\ UNCHANGED <<call, other, config, input, mail, secureTransport, socket, secureSocket, locks,
                 ehlo, tlsEhlo, capabilities, tlsCapabilities, rcpt>>

ReadRcpt ==
  /\ pc = "rcpt_read"
  /\ \E chunks \in ServerStreams(FALSE) :
       LET response == readSmtpResponse(chunks)
       IN  /\ expect(session.reader, response, {250, 251}, "RCPT TO",
                     IF rcpt < Len(mail.to) THEN "rcpt_write" ELSE "data_write")
           /\ rcpt' = IF response.kind = "reply" /\ assertSmtpOk(response, {250, 251})
                      THEN rcpt + 1 ELSE rcpt
  /\ UNCHANGED <<call, other, config, input, mail, secureTransport, socket, secureSocket, locks,
                 ehlo, tlsEhlo, capabilities, tlsCapabilities>>

WriteData ==
  /\ pc = "data_write"
  /\ writeSmtpCommand(session.writer, <<"D", "A", "T", "A">>, "data_read")
  /\ UNCHANGED <<call, other, config, input, mail, secureTransport, socket, secureSocket, locks,
                 ehlo, tlsEhlo, capabilities, tlsCapabilities, rcpt>>

\* A faulty ReadData: 250 is taken for the go-ahead as well
ReadDataAnyOk ==
  /\ pc = "data_read"
  /\ \E chunks \in ServerStreams(FALSE) :
       expect(session.reader, readSmtpResponse(chunks), {250, 354}, "DATA", "body_write")
  /\ UNCHANGED <<call, other, config, input, mail, secureTransport, socket, secureSocket, locks,
                 ehlo, tlsEhlo, capabilities, tlsCapabilities, rcpt>>

ReadData ==
  /\ pc = "data_read"
  /\ \E chunks \in ServerStreams(FALSE) :
       expect(session.reader, readSmtpResponse(chunks), {354}, "DATA", "body_write")
  /\ UNCHANGED <<call, other, config, input, mail, secureTransport, socket, secureSocket, locks,
                 ehlo, tlsEhlo, capabilities, tlsCapabilities, rcpt>>

\* A faulty WriteBody: the message is stuffed once more before it is written
WriteBodyStuffedTwice ==
  /\ pc = "body_write"
  /\ \E uuid \in Uuids :
       LET body == createMessage(mail.from, mail.to, mail.subject, mail.text,
                                 mail.html, uuid)
           dotStuffed == dotStuff(dotStuff(body))
       IN  write(session.writer, dotStuffed \o CRLF \o <<".">> \o CRLF, "queued_read")
  /\ UNCHANGED <<call, other, config, input, mail, secureTransport, socket, secureSocket, locks,
                 ehlo, tlsEhlo, capabilities, tlsCapabilities, rcpt>>

\* createMessage, dotStuff and the one write of the stuffed body and terminator
WriteBody ==
  /\ pc = "body_write"
  /\ \E uuid \in Uuids :
       LET body == createMessage(mail.from, mail.to, mail.subject, mail.text,
                                 mail.html, uuid)
           dotStuffed == dotStuff(body)
       IN  write(session.writer, dotStuffed \o CRLF \o <<".">> \o CRLF, "queued_read")
  /\ UNCHANGED <<call, other, config, input, mail, secureTransport, socket, secureSocket, locks,
                 ehlo, tlsEhlo, capabilities, tlsCapabilities, rcpt>>

\* A faulty ReadQueued: the reply after the body is read and not asserted
ReadQueuedUnchecked ==
  /\ pc = "queued_read"
  /\ \E chunks \in ServerStreams(FALSE) :
       LET response == readSmtpResponse(chunks)
       IN  /\ io' = Append(io, readEvent(session.reader, response))
           /\ IF response.kind # "reply"
              THEN pc' = "done" /\ result' = Threw(readError(response))
              ELSE pc' = "quit_write" /\ result' = result
  /\ UNCHANGED <<call, other, config, input, mail, secureTransport, socket, secureSocket, locks,
                 ehlo, tlsEhlo, capabilities, tlsCapabilities, rcpt>>

ReadQueued ==
  /\ pc = "queued_read"
  /\ \E chunks \in ServerStreams(FALSE) :
       expect(session.reader, readSmtpResponse(chunks), {250}, "DATA end", "quit_write")
  /\ UNCHANGED <<call, other, config, input, mail, secureTransport, socket, secureSocket, locks,
                 ehlo, tlsEhlo, capabilities, tlsCapabilities, rcpt>>

WriteQuit ==
  /\ pc = "quit_write"
  /\ writeSmtpCommand(session.writer, <<"Q", "U", "I", "T">>, "quit_read")
  /\ UNCHANGED <<call, other, config, input, mail, secureTransport, socket, secureSocket, locks,
                 ehlo, tlsEhlo, capabilities, tlsCapabilities, rcpt>>

\* The reply to QUIT is read and not looked at; then the socket is closed
\* and the send returns a fresh identifier
ReadQuit ==
  /\ pc = "quit_read"
  /\ \E chunks \in ServerStreams(FALSE), uuid \in Uuids :
       LET response == readSmtpResponse(chunks)
       IN  /\ io' = Append(io, readEvent(session.reader, response))
           /\ pc' = "done"
           /\ IF response.kind # "reply"
              THEN /\ result' = Threw(readError(response))
                   /\ UNCHANGED <<socket, secureSocket>>
              ELSE /\ result' = Returned(uuid)
                   /\ socket' = IF session.socket = "socket" THEN "closed" ELSE socket
                   /\ secureSocket' = IF session.socket = "secureSocket" THEN "closed"
                                      ELSE secureSocket
  /\ UNCHANGED <<call, other, config, input, mail, secureTransport, locks, ehlo, tlsEhlo,
                 capabilities, tlsCapabilities, rcpt>>

Next ==
  \/ Send
  \/ ReadGreeting
  \/ WriteEhlo
  \/ ReadEhlo
  \/ WriteStartTls
  \/ ReadStartTls
  \/ WriteTlsEhlo
  \/ ReadTlsEhlo
  \/ AuthPlainWrite
  \/ AuthPlainRead
  \/ AuthLoginWrite
  \/ AuthLoginReadChallengeUser
  \/ AuthLoginWriteUser
  \/ AuthLoginReadChallengePass
  \/ AuthLoginWritePass
  \/ AuthLoginReadOk
  \/ AuthUnsupported
  \/ WriteMailFrom
  \/ ReadMailFrom
  \/ WriteRcpt
  \/ ReadRcpt
  \/ WriteData
  \/ ReadData
  \/ WriteBody
  \/ ReadQueued
  \/ WriteQuit
  \/ ReadQuit

Spec == Init /\ [][Next]_vars

(* =================== the functions called on their own ================== *)

\* Bounds: the lines of a server stream or of an EHLO reply, and the
\* characters of a document handed to dotStuff
MaxLines == 3

MaxDocLen == 5

\* No mailer has been created and no send is running
NoConfig == [port |-> 0, secure |-> "unset", helo |-> Unset, auth |-> NoAuth]

sessionVars ==
  <<config, input, mail, pc, secureTransport, socket, secureSocket, locks, io, ehlo,
    tlsEhlo, capabilities, tlsCapabilities, rcpt, result, other>>

\* getSmtpSecureTransport takes any number and an optional boolean
TransportPorts == {0, 25, 464, 465, 466, 587, 588, 2525, 65535}

TransportArgs == [port : TransportPorts, secure : Secures]

\* Sequences of at least `least` and at most MaxLines lines of a pool
LineSeqs(pool, least) == UNION {[1..n -> pool] : n \in least..MaxLines}

\* Lines a server can put on the wire
ReplyLines ==
  { <<"2", "5", "0", " ", "o", "k">>, <<"2", "5", "0", "-", "a">>, <<"2", "5", "0">>, <<"2", "5", "0", "x">>, <<"2", "5", "1", "-", "b">>, <<"2", "5", "1", " ", "c">>, <<"1", "e", "3", " ", "d">>, <<" ", "2", "5", " ", "e">>,
    <<"-", "1", "2">>, <<" ", " ", " ">>, <<"2", "5">> }

\* The text of a stream: every line ended by eol, the last one only when
\* the stream did not close inside it
StreamText(lines, eol, complete) ==
  join([i \in 1..Len(lines) |->
          IF i < Len(lines) \/ complete THEN lines[i] \o eol ELSE lines[i]],
       <<>>)

\* The chunks reader.read() can deliver a text in: all at once, in two
\* halves, or one character at a time; no chunk when there is no text
Chunkings(text) ==
  IF text = <<>> THEN {<<>>}
  ELSE {<<text>>, [i \in 1..Len(text) |-> <<text[i]>>]}
       \cup (IF Len(text) >= 2
             THEN {<<SubSeq(text, 1, Len(text) \div 2),
                     SubSeq(text, Len(text) \div 2 + 1, Len(text))>>}
             ELSE {})

\* Servers end a line with CRLF; the reader takes a bare LF as well
Eols == {CRLF, <<"\n">>}

\* Lines of an EHLO reply
EhloLines ==
  { <<"2", "5", "0", "-", "m", "x">>, <<"2", "5", "0", "-", "A", "U", "T", "H", " ", "P", "L", "A", "I", "N", " ", "L", "O", "G", "I", "N">>, <<"2", "5", "0", " ", "a", "u", "t", "h", " ", "l", "o", "g", "i", "n">>, <<"2", "5", "0", "-", "A", "U", "T", "H", " ", " ", "L", "O", "G", "I", "N", "\t", "P", "L", "A", "I", "N">>,
    <<"2", "5", "0", " ", "A", "U", "T", "H">>, <<"2", "5", "0", "-", "A", "U", "T", "H", "=", "P", "L", "A", "I", "N">>, <<"A", "U", "T", "H", " ", "L", "O", "G", "I", "N">>, <<"2", "5", "0", "-", "A", "U", "T", "H", "\t", "P", "L", "A", "I", "N">>, <<"2", "5", "0", "-", "A", "U", "T", "H", " ", "P", "L", "A", "I", "N", "X">>,
    <<"2", "5", "0", "-", " ", "A", "u", "t", "h", " ", "C", "R", "A", "M", "-", "M", "D", "5", " ", "P", "l", "a", "i", "n", " ">> }

EhloArgs == {[code |-> 250, lines |-> lines] : lines \in LineSeqs(EhloLines, 1)}

\* Documents handed to dotStuff
DocChars == {".", "a", "\r", "\n"}

Docs == UNION {[1..n -> DocChars] : n \in 0..MaxDocLen}

Calling(fn, arg) == [fn |-> fn, arg |-> arg, ret |-> <<>>, done |-> FALSE]

\* No send is running
NoSend ==
  /\ config = NoConfig
  /\ input = NoInput
  /\ mail = NoMail
  /\ pc = "no mailer"
  /\ secureTransport = "unset"
  /\ socket = "none"
  /\ secureSocket = "none"
  /\ locks = [reader |-> "none", writer |-> "none", tlsReader |-> "none", tlsWriter |-> "none"]
  /\ io = <<>>
  /\ ehlo = NoReply
  /\ tlsEhlo = NoReply
  /\ capabilities = NoCapabilities
  /\ tlsCapabilities = NoCapabilities
  /\ rcpt = 0
  /\ result = Pending
  /\ other = NoOther

\* Inputs of createMessage as validateSendMailInput lets them through: a
\* subject of at least one character, `to` a non-empty array, text and html
\* absent or of at least one character
Subjects == {<<"H", "i">>, <<"\r", "\n", ".", "\r", "\n">>}

Texts ==
  {Unset} \cup {Some(d) : d \in UNION {[1..n -> DocChars \ {"a"}] : n \in 1..MaxDocLen}}

Htmls == {Unset, Some(<<".", "\r", "\n", ".">>)}

InitCreateMessage ==
  NoSend /\ \E n \in 1..MaxRcpt, subject \in Subjects, text \in Texts, html \in Htmls,
               uuid \in Uuids :
              call = Calling("createMessage",
                             [from |-> <<"s", "@", "x">>, to |-> RcptList(n), subject |-> subject,
                              text |-> text, html |-> html, uuid |-> uuid])

InitDotStuff == NoSend /\ \E arg \in Docs : call = Calling("dotStuff", arg)

\* Well-formed replies a server sends one after the other
WellFormedReplies ==
  { [code |-> 220, lines |-> << <<"2", "2", "0", " ", "h", "i">> >>],
    [code |-> 250, lines |-> << <<"2", "5", "0", "-", "a">>, <<"2", "5", "0", " ", "o", "k">> >>],
    [code |-> 250, lines |-> << <<"2", "5", "0", " ", "o", "k">> >>],
    [code |-> 354, lines |-> << <<"3", "5", "4", " ", "g", "o">> >>] }

\* The chunks reader.read() can deliver two replies in: the chunkings of the
\* whole text, one reply per chunk, and the first reply together with the
\* first character of the second
ReplyChunkings(t1, t2) ==
  Chunkings(t1 \o t2) \cup {<<t1, t2>>, <<Append(t1, Head(t2)), Tail(t2)>>}

\* Two calls of readSmtpResponse on the same reader, as smtpSendMail makes
\* them for the greeting and for the reply to EHLO
InitSuccessiveReads ==
  NoSend /\ \E r1 \in WellFormedReplies, r2 \in WellFormedReplies, eol \in Eols :
              \E chunks \in ReplyChunkings(StreamText(r1.lines, eol, TRUE),
                                           StreamText(r2.lines, eol, TRUE)) :
                call = Calling("readSmtpResponse twice",
                               [replies |-> <<r1, r2>>, chunks |-> chunks])

InitCalls ==
  \/ NoSend /\ \E arg \in TransportArgs : call = Calling("getSmtpSecureTransport", arg)
  \/ NoSend /\ \E lines \in LineSeqs(ReplyLines, 0), eol \in Eols, complete \in BOOLEAN :
                 \E arg \in Chunkings(StreamText(lines, eol, complete)) :
                   call = Calling("readSmtpResponse", arg)
  \/ NoSend /\ \E arg \in EhloArgs : call = Calling("parseSmtpCapabilities", arg)
  \/ InitDotStuff
  \/ InitCreateMessage
  \/ InitSuccessiveReads

CallGetSmtpSecureTransport ==
  /\ call.fn = "getSmtpSecureTransport"
  /\ ~call.done
  /\ call' = [call EXCEPT !.ret = getSmtpSecureTransport(call.arg.port, call.arg.secure),
                          !.done = TRUE]
  /\ UNCHANGED sessionVars

CallReadSmtpResponse ==
  /\ call.fn = "readSmtpResponse"
  /\ ~call.done
  /\ call' = [call EXCEPT !.ret = readSmtpResponse(call.arg), !.done = TRUE]
  /\ UNCHANGED sessionVars

CallParseSmtpCapabilities ==
  /\ call.fn = "parseSmtpCapabilities"
  /\ ~call.done
  /\ call' = [call EXCEPT !.ret = parseSmtpCapabilities(call.arg), !.done = TRUE]
  /\ UNCHANGED sessionVars

CallDotStuff ==
  /\ call.fn = "dotStuff"
  /\ ~call.done
  /\ call' = [call EXCEPT !.ret = dotStuff(call.arg), !.done = TRUE]
  /\ UNCHANGED sessionVars

\* The second call starts with a buffer of its own and reads what the first
\* left on the reader
CallSuccessiveReads ==
  /\ call.fn = "readSmtpResponse twice"
  /\ ~call.done
  /\ LET first == readSmtpResponse(call.arg.chunks)
     IN  call' = [call EXCEPT !.ret = <<first, readSmtpResponse(first.chunks)>>,
                              !.done = TRUE]
  /\ UNCHANGED sessionVars

CallCreateMessage ==
  /\ call.fn = "createMessage"
  /\ ~call.done
  /\ call' = [call EXCEPT !.ret = createMessage(call.arg.from, call.arg.to, call.arg.subject,
                                                call.arg.text, call.arg.html, call.arg.uuid),
                          !.done = TRUE]
  /\ UNCHANGED sessionVars

NextCalls ==
  \/ CallGetSmtpSecureTransport
  \/ CallReadSmtpResponse
  \/ CallParseSmtpCapabilities
  \/ CallDotStuff
  \/ CallCreateMessage
  \/ CallSuccessiveReads

SpecCalls == InitCalls /\ [][NextCalls]_vars

\* Sends, and calls of dotStuff on documents of its own
InitAll == Init \/ InitDotStuff

NextAll == Next \/ CallDotStuff

SpecAll == InitAll /\ [][NextAll]_vars

(* Two sends of one mailer.  An async function runs from one await to the
   next without interruption, so the sends interleave step by step; between
   two steps either of them can be the one that goes on.  The variables of
   the session are the locals of the invocation that goes on next, `other`
   holds the locals of the one that waits. *)
locals ==
  [input |-> input, mail |-> mail, pc |-> pc, secureTransport |-> secureTransport,
   socket |-> socket, secureSocket |-> secureSocket, locks |-> locks, io |-> io,
   ehlo |-> ehlo, tlsEhlo |-> tlsEhlo, capabilities |-> capabilities,
   tlsCapabilities |-> tlsCapabilities, rcpt |-> rcpt, result |-> result]

\* The mailers of this specification
TwoConfigs ==
  { [port |-> 465, secure |-> "unset", helo |-> Unset,
     auth |-> [set |-> TRUE, user |-> <<"u">>, pass |-> <<"p", "w">>]],
    [port |-> 587, secure |-> "unset", helo |-> Unset, auth |-> NoAuth] }

InitTwo ==
  /\ config \in TwoConfigs
  /\ input = Idle.input
  /\ mail = Idle.mail
  /\ pc = Idle.pc
  /\ secureTransport = Idle.secureTransport
  /\ socket = Idle.socket
  /\ secureSocket = Idle.secureSocket
  /\ locks = Idle.locks
  /\ io = Idle.io
  /\ ehlo = Idle.ehlo
  /\ tlsEhlo = Idle.tlsEhlo
  /\ capabilities = Idle.capabilities
  /\ tlsCapabilities = Idle.tlsCapabilities
  /\ rcpt = Idle.rcpt
  /\ result = Idle.result
  /\ other = [there |-> TRUE, send |-> Idle]
  /\ call = NoCall

\* The sends of this specification go to MaxRcpt recipients.  The server
\* answers what the stage expects or 550, with capabilities only for a
\* mailer that authenticates, and the connection stays open.
TwoAnswered ==
  /\ \A i \in 1..Len(io) :
       io[i].op = "read"
         => /\ io[i].kind = "reply"
            /\ Len(io[i].lines) <= 2
            /\ io[i].code # 251
            /\ io[i].at = "quit_read" => io[i].code \in {250, 550}
  /\ result.error.kind = "assert" => io[Len(io)].code = 550
  /\ ~config.auth.set => Len(ehlo.lines) <= 1 /\ Len(tlsEhlo.lines) <= 1
  /\ pc # "idle" => input.to.isArray /\ Len(input.to.arr) = MaxRcpt

\* A faulty Switch: the recipient index is one variable of the module, which
\* the sends share
SwitchSharedRcpt ==
  /\ other.there
  /\ other' = [other EXCEPT !.send = locals]
  /\ input' = other.send.input
  /\ mail' = other.send.mail
  /\ pc' = other.send.pc
  /\ secureTransport' = other.send.secureTransport
  /\ socket' = other.send.socket
  /\ secureSocket' = other.send.secureSocket
  /\ locks' = other.send.locks
  /\ io' = other.send.io
  /\ ehlo' = other.send.ehlo
  /\ tlsEhlo' = other.send.tlsEhlo
  /\ capabilities' = other.send.capabilities
  /\ tlsCapabilities' = other.send.tlsCapabilities
  /\ result' = other.send.result
  /\ UNCHANGED <<rcpt, config, call>>

\* The send that waits is the one to go on: every local of smtpSendMail and
\* of send belongs to the invocation, parsedConfig alone is common
Switch ==
  /\ other.there
  /\ other' = [other EXCEPT !.send = locals]
  /\ input' = other.send.input
  /\ mail' = other.send.mail
  /\ pc' = other.send.pc
  /\ secureTransport' = other.send.secureTransport
  /\ socket' = other.send.socket
  /\ secureSocket' = other.send.secureSocket
  /\ locks' = other.send.locks
  /\ io' = other.send.io
  /\ ehlo' = other.send.ehlo
  /\ tlsEhlo' = other.send.tlsEhlo
  /\ capabilities' = other.send.capabilities
  /\ tlsCapabilities' = other.send.tlsCapabilities
  /\ rcpt' = other.send.rcpt
  /\ result' = other.send.result
  /\ UNCHANGED <<config, call>>

NextTwo ==
  \/ Send /\ TwoAnswered'
  \/ ReadGreeting /\ TwoAnswered'
  \/ WriteEhlo /\ TwoAnswered'
  \/ ReadEhlo /\ TwoAnswered'
  \/ WriteStartTls /\ TwoAnswered'
  \/ ReadStartTls /\ TwoAnswered'
  \/ WriteTlsEhlo /\ TwoAnswered'
  \/ ReadTlsEhlo /\ TwoAnswered'
  \/ AuthPlainWrite /\ TwoAnswered'
  \/ AuthPlainRead /\ TwoAnswered'
  \/ AuthLoginWrite /\ TwoAnswered'
  \/ AuthLoginReadChallengeUser /\ TwoAnswered'
  \/ AuthLoginWriteUser /\ TwoAnswered'
  \/ AuthLoginReadChallengePass /\ TwoAnswered'
  \/ AuthLoginWritePass /\ TwoAnswered'
  \/ AuthLoginReadOk /\ TwoAnswered'
  \/ AuthUnsupported /\ TwoAnswered'
  \/ WriteMailFrom /\ TwoAnswered'
  \/ ReadMailFrom /\ TwoAnswered'
  \/ WriteRcpt /\ TwoAnswered'
  \/ ReadRcpt /\ TwoAnswered'
  \/ WriteData /\ TwoAnswered'
  \/ ReadData /\ TwoAnswered'
  \/ WriteBody /\ TwoAnswered'
  \/ ReadQueued /\ TwoAnswered'
  \/ WriteQuit /\ TwoAnswered'
  \/ ReadQuit /\ TwoAnswered'
  \/ Switch

SpecTwo == InitTwo /\ [][NextTwo]_vars

(* ============================== the claims ============================== *)

Reads == {i \in 1..Len(io) : io[i].op = "read"}

Writes == {i \in 1..Len(io) : io[i].op = "write"}

\* A reply with a code in `codes` was read at step `at`
AckedAt(at, codes) ==
  \E i \in Reads : io[i].at = at /\ io[i].kind = "reply" /\ io[i].code \in codes

\* The stages of the session's state machine with the codes each requires
\* and the label its error carries
Stages ==
  { [at |-> "greeting_read", codes |-> {220}, label |-> "Greeting"],
    [at |-> "ehlo_read", codes |-> {250}, label |-> "EHLO"],
    [at |-> "starttls_read", codes |-> {220}, label |-> "STARTTLS"],
    [at |-> "tlsEhlo_read", codes |-> {250}, label |-> "EHLO (TLS)"],
    [at |-> "mailFrom_read", codes |-> {250}, label |-> "MAIL FROM"],
    [at |-> "rcpt_read", codes |-> {250, 251}, label |-> "RCPT TO"],
    [at |-> "data_read", codes |-> {354}, label |-> "DATA"],
    [at |-> "queued_read", codes |-> {250}, label |-> "DATA end"] }

\* C1: at every stage a reply whose code is outside the stage's expected
\* set ends the send at once with an error carrying the stage's label, the
\* code and all reply lines, and nothing is written after that reply.
C1_UnexpectedCodeAborts ==
  \A i \in Reads : \A st \in Stages :
    (io[i].at = st.at /\ io[i].kind = "reply" /\ io[i].code \notin st.codes)
      => /\ i = Len(io)
         /\ pc = "done"
         /\ result = Threw([kind |-> "assert", context |-> st.label,
                            code |-> io[i].code, lines |-> io[i].lines])

\* The second recipient of two was answered 550
C1_Witness ==
  /\ pc = "done"
  /\ Len(mail.to) = 2
  /\ rcpt = 2
  /\ io # <<>>
  /\ io[Len(io)].at = "rcpt_read"
  /\ io[Len(io)].kind = "reply"
  /\ io[Len(io)].code = 550

AllAcknowledged ==
  /\ AckedAt("greeting_read", {220})
  /\ AckedAt("ehlo_read", {250})
  /\ secureTransport = "starttls"
       => AckedAt("starttls_read", {220}) /\ AckedAt("tlsEhlo_read", {250})
  /\ config.auth.set
       => AckedAt("authPlain_read", {235}) \/ AckedAt("authPass_read", {235})
  /\ AckedAt("mailFrom_read", {250})
  /\ Cardinality({i \in Reads : io[i].at = "rcpt_read" /\ io[i].kind = "reply"
                                  /\ io[i].code \in {250, 251}}) = Len(mail.to)
  /\ AckedAt("data_read", {354})
  /\ AckedAt("queued_read", {250})

\* C2: a send returns a message identifier only if every step through DATA
\* end was acknowledged with its expected code; a finished send in which
\* some step was not has surfaced an error and produced no identifier.
C2_NoPartialSuccess ==
  /\ result.kind = "returned" => AllAcknowledged /\ result.messageId \in Uuids
  /\ (pc = "done" /\ ~AllAcknowledged)
       => result.kind = "threw" /\ result.messageId = <<>> /\ result.error # NoError

\* A STARTTLS send with AUTH LOGIN and two recipients returned an identifier
C2_Witness ==
  /\ result.kind = "returned"
  /\ secureTransport = "starttls"
  /\ AckedAt("authPass_read", {235})
  /\ Len(mail.to) = 2

\* A transport was opened by the send
Connected == socket # "none"

\* C3: whenever the send fails after the connection was opened, the handle
\* has been closed before the error propagates.
C3_ClosedOnEveryExit ==
  (result.kind = "threw" /\ Connected) => (socket # "open" /\ secureSocket # "open")

\* C4: once the body was acknowledged with 250, whatever comes back for
\* QUIT (any code, a malformed line, the connection closing), the send
\* completes and returns the message identifier.
C4_QuitReplyNotRequired ==
  (\E i \in Reads : io[i].at = "quit_read") => result.kind = "returned"

\* C5: after the greeting read, every write is followed by exactly one
\* completed reply read before the next write: reads and writes alternate,
\* a write follows a reply that was read, a read follows a write that
\* went through.
C5_LockStep ==
  \A i \in 1..Len(io) :
    IF i = 1
    THEN io[i].op = "read" /\ io[i].at = "greeting_read"
    ELSE /\ io[i].op = "write" => (io[i - 1].op = "read" /\ io[i - 1].kind = "reply")
         /\ io[i].op = "read" => (io[i - 1].op = "write" /\ io[i - 1].kind = "ok")

\* The body was written and its reply read
C5_Witness ==
  \E i \in Writes :
    /\ io[i].at = "body_write"
    /\ i < Len(io)
    /\ io[i + 1].op = "read"

\* C6: a send with port 25 fails with the unsupported-port error before any
\* transport is opened and before any byte is read or written.
C6_Port25Rejected ==
  (config.port = 25 /\ pc # "idle")
    => /\ pc = "done"
       /\ result = Threw(PlainError("Port 25 is not supported on Cloudflare Workers"))
       /\ socket = "none"
       /\ secureSocket = "none"
       /\ \A h \in DOMAIN locks : locks[h] = "none"
       /\ io = <<>>

C6_Witness ==
  /\ config.port = 25
  /\ config.secure = "true"
  /\ config.auth.set
  /\ config.helo.set
  /\ input.to.isArray
  /\ pc = "done"

\* The reply that acknowledged STARTTLS, after which the transport is upgraded
UpgradeAt(i) ==
  /\ io[i].op = "read"
  /\ io[i].at = "starttls_read"
  /\ io[i].kind = "reply"
  /\ io[i].code = 220

\* C7: in STARTTLS mode, after STARTTLS is acknowledged with 220 every
\* later read and write, and the close, use the upgraded handle only; the
\* pre-upgrade reader and writer are released and never used again.
C7_UpgradedHandleOnly ==
  \A i \in 1..Len(io) :
    UpgradeAt(i)
      => /\ \A j \in (i + 1)..Len(io) : io[j].via \in {"tlsReader", "tlsWriter"}
         /\ locks.reader = "released"
         /\ locks.writer = "released"
         /\ socket = "upgraded"
         /\ result.kind = "returned" => secureSocket = "closed"

\* An authenticated STARTTLS send that ran to its end
C7_Witness ==
  /\ \E i \in 1..Len(io) : UpgradeAt(i)
  /\ config.auth.set
  /\ result.kind = "returned"

\* The mechanism a set of capabilities selects
Mechanism(caps) ==
  IF caps.plain THEN "PLAIN" ELSE IF caps.login THEN "LOGIN" ELSE "unsupported"

\* The mechanism the send went for, read off what it wrote and threw at the
\* start of smtpAuth
MechanismUsed ==
  IF \E i \in Writes : io[i].at = "auth" /\ startsWith(io[i].data, <<"A", "U", "T", "H", " ", "P", "L", "A", "I", "N", " ">>)
  THEN "PLAIN"
  ELSE IF \E i \in Writes : io[i].at = "auth" /\ io[i].data = <<"A", "U", "T", "H", " ", "L", "O", "G", "I", "N", "\r", "\n">>
  THEN "LOGIN"
  ELSE IF result.error.kind = "SMTP server does not support AUTH PLAIN or AUTH LOGIN"
  THEN "unsupported"
  ELSE IF result.error.kind = "InvalidCharacterError"
  THEN "PLAIN"
  ELSE "none"

\* smtpAuth has been entered and has made its choice
AuthChosen ==
  /\ config.auth.set
  /\ pc \notin {"idle", "greeting_read", "ehlo_write", "ehlo_read", "starttls_write",
                "starttls_read", "tlsEhlo_write", "tlsEhlo_read", "auth"}
  /\ AckedAt("ehlo_read", {250})
  /\ secureTransport = "starttls" => AckedAt("tlsEhlo_read", {250})

\* C8: in STARTTLS mode the mechanism used is the one the reply to the
\* second EHLO selects, whatever the reply to the first EHLO advertised.
C8_PostUpgradeCapabilitiesGovern ==
  (secureTransport = "starttls" /\ AuthChosen)
    => MechanismUsed = Mechanism(parseSmtpCapabilities(tlsEhlo))

\* The two EHLO replies select different mechanisms
C8_Witness ==
  /\ secureTransport = "starttls"
  /\ AuthChosen
  /\ Mechanism(parseSmtpCapabilities(ehlo)) = "PLAIN"
  /\ Mechanism(parseSmtpCapabilities(tlsEhlo)) = "LOGIN"
  /\ MechanismUsed = "LOGIN"

\* C9: whenever the capabilities advertise PLAIN, smtpAuth sends the single
\* command AUTH PLAIN <base64>, requires 235 and never issues AUTH LOGIN;
\* LOGIN is attempted only when PLAIN is not advertised and LOGIN is.
C9_PlainPreferred ==
  AuthChosen
    => /\ session.capabilities.plain
            => /\ \E i \in Writes :
                    /\ io[i].at = "auth"
                    /\ startsWith(io[i].data, <<"A", "U", "T", "H", " ", "P", "L", "A", "I", "N", " ">>)
                    /\ \A j \in Writes : io[j].at = "auth" => j = i
               /\ ~\E i \in Writes : io[i].data = <<"A", "U", "T", "H", " ", "L", "O", "G", "I", "N", "\r", "\n">>
               /\ \A i \in Reads :
                    (io[i].at = "authPlain_read" /\ io[i].kind = "reply"
                     /\ io[i].code # 235)
                      => (i = Len(io) /\ result.kind = "threw")
       /\ (\E i \in Writes : io[i].data = <<"A", "U", "T", "H", " ", "L", "O", "G", "I", "N", "\r", "\n">>)
            => (~session.capabilities.plain /\ session.capabilities.login)

\* C10: the AUTH LOGIN exchange is AUTH LOGIN, 334, base64(user), 334,
\* base64(pass), 235; an unexpected code at a step fails the send with that
\* step's label, the code and the lines, and the rest is not sent.
LoginSteps ==
  { [at |-> "authLogin_read", codes |-> {334}, label |-> "AUTH LOGIN (challenge user)",
     then |-> "authUser_write"],
    [at |-> "authUser_read", codes |-> {334}, label |-> "AUTH LOGIN (challenge pass)",
     then |-> "authPass_write"],
    [at |-> "authPass_read", codes |-> {235}, label |-> "AUTH LOGIN",
     then |-> "mailFrom_write"] }

C10_LoginExchange ==
  \A i \in Reads : \A st \in LoginSteps :
    (io[i].at = st.at /\ io[i].kind = "reply")
      => IF io[i].code \in st.codes
         THEN \/ (i = Len(io) /\ pc = st.then)
              \/ (i < Len(io) /\ io[i + 1].op = "write" /\ io[i + 1].at = st.then)
         ELSE /\ i = Len(io)
              /\ result = Threw([kind |-> "assert", context |-> st.label,
                                 code |-> io[i].code, lines |-> io[i].lines])

\* The EHLO reply that governs authentication: the one read after the
\* upgrade in STARTTLS mode, the only one otherwise
GoverningEhlo == IF secureTransport = "starttls" THEN tlsEhlo ELSE ehlo

\* C11: with credentials supplied and neither PLAIN nor LOGIN advertised by
\* the governing EHLO reply, the send fails with the authentication-
\* unsupported error; no AUTH command and no later command (MAIL FROM,
\* RCPT TO, DATA) is written: that EHLO reply is the last thing on the wire.
C11_UnsupportedAuthWritesNothing ==
  (AuthChosen /\ Mechanism(parseSmtpCapabilities(GoverningEhlo)) = "unsupported")
    => /\ pc = "done"
       /\ result = Threw(PlainError("SMTP server does not support AUTH PLAIN or AUTH LOGIN"))
       /\ io[Len(io)].op = "read"
       /\ io[Len(io)].at = (IF secureTransport = "starttls" THEN "tlsEhlo_read" ELSE "ehlo_read")
       /\ \A i \in Writes :
            /\ ~startsWith(io[i].data, <<"A", "U", "T", "H">>)
            /\ ~startsWith(io[i].data, <<"M", "A", "I", "L", " ", "F", "R", "O", "M">>)
            /\ ~startsWith(io[i].data, <<"R", "C", "P", "T", " ", "T", "O">>)
            /\ ~startsWith(io[i].data, <<"D", "A", "T", "A">>)

\* PLAIN was advertised before the upgrade and nothing after it
C11_Witness ==
  /\ AuthChosen
  /\ secureTransport = "starttls"
  /\ Mechanism(parseSmtpCapabilities(ehlo)) = "PLAIN"
  /\ Mechanism(parseSmtpCapabilities(tlsEhlo)) = "unsupported"
  /\ result.kind = "threw"

\* The recipients send() was given, a single string being a list of one
Recipients == IF input.to.isArray THEN input.to.arr ELSE <<input.to.str>>

RcptWrites == {i \in Writes : startsWith(io[i].data, <<"R", "C", "P", "T", " ", "T", "O", ":">>)}

\* The reply that follows write i accepted the recipient
RcptAccepted(i) ==
  /\ i < Len(io)
  /\ io[i + 1].op = "read"
  /\ io[i + 1].kind = "reply"
  /\ io[i + 1].code \in {250, 251}

\* C12: the k-th RCPT TO written names the k-th recipient given, is written
\* after MAIL FROM was acknowledged with 250 and after every earlier
\* recipient was accepted with 250 or 251; a recipient answered otherwise
\* ends the send with no further RCPT TO; DATA is written only after all
\* recipients were accepted, one RCPT TO each.
C12_OneRcptPerRecipient ==
  /\ \A i \in RcptWrites :
       LET k == Cardinality({j \in RcptWrites : j <= i})
       IN  /\ k <= Len(Recipients)
           /\ io[i].data = <<"R", "C", "P", "T", " ", "T", "O", ":", "<">> \o Recipients[k] \o <<">", "\r", "\n">>
           /\ \E j \in Reads :
                /\ j < i
                /\ io[j].kind = "reply"
                /\ io[j].code = 250
                /\ startsWith(io[j - 1].data, <<"M", "A", "I", "L", " ", "F", "R", "O", "M", ":">>)
           /\ \A j \in RcptWrites : j < i => RcptAccepted(j)
           /\ (i < Len(io) /\ ~RcptAccepted(i))
                => /\ i + 1 = Len(io)
                   /\ pc = "done"
                   /\ result.kind = "threw"
  /\ \A i \in Writes :
       io[i].data = <<"D", "A", "T", "A", "\r", "\n">>
         => /\ Cardinality(RcptWrites) = Len(Recipients)
            /\ \A j \in RcptWrites : j < i /\ RcptAccepted(j)

\* `to` was a single string, its RCPT TO was answered 251 and DATA was written
C12_Witness ==
  /\ ~input.to.isArray
  /\ \E i \in RcptWrites : RcptAccepted(i) /\ io[i + 1].code = 251
  /\ \E i \in Writes : io[i].data = <<"D", "A", "T", "A", "\r", "\n">>

\* Both of two recipients were accepted and DATA was written
C12_WitnessTwo ==
  /\ Len(Recipients) = 2
  /\ Cardinality(RcptWrites) = 2
  /\ \E i \in Writes : io[i].data = <<"D", "A", "T", "A", "\r", "\n">>

Called(fn) == call.fn = fn /\ call.done

\* C13: getSmtpSecureTransport answers every (port, secure): "on" for port
\* 465 and "starttls" for port 587 whatever `secure` is; for any other port
\* "on" when `secure` is true and "off" when it is false or unset.
C13_TransportMode ==
  Called("getSmtpSecureTransport")
    => /\ call.ret \in {"off", "on", "starttls"}
       /\ call.arg.port = 465 => call.ret = "on"
       /\ call.arg.port = 587 => call.ret = "starttls"
       /\ (call.arg.port \notin {465, 587} /\ call.arg.secure = "true") => call.ret = "on"
       /\ (call.arg.port \notin {465, 587} /\ call.arg.secure \in {"false", "unset"})
            => call.ret = "off"

\* Port 587 with secure set to true: the port decides
C13_Witness ==
  /\ Called("getSmtpSecureTransport")
  /\ call.arg = [port |-> 587, secure |-> "true"]
  /\ call.ret = "starttls"

(* ---- readSmtpResponse, against the lines of the stream it was given ---- *)

\* The text of the stream, whatever chunks it came in
StreamOf(chunks) == join(chunks, <<>>)

\* The lines of a text that are ended by a newline, without their CRLF or LF
CompleteLines(text) ==
  LET pieces == split(text, <<"\n">>)
  IN  [i \in 1..(Len(pieces) - 1) |->
         IF pieces[i] # <<>> /\ pieces[i][Len(pieces[i])] = "\r"
         THEN SubSeq(pieces[i], 1, Len(pieces[i]) - 1)
         ELSE pieces[i]]

Sent == CompleteLines(StreamOf(call.arg))

ThreeDigits(line) == Len(line) >= 3 /\ AllDigits(SubSeq(line, 1, 3))

\* The character at offset 3 of the line is c
At3(line, c) == Len(line) >= 4 /\ line[4] = c

\* The later lines of the stream that begin with the first line's three
\* characters and a space
Terminators ==
  {i \in 2..Len(Sent) : startsWith(Sent[i], Append(sliceTo(Sent[1], 3), " "))}

\* C14, as stated: every Reply has at least one line, its last line begins
\* with the three digits of its code and a space, and every earlier line
\* begins with the same three digits and a hyphen.
C14_ReplyInvariant ==
  (Called("readSmtpResponse") /\ call.ret.kind = "reply")
    => LET lines == call.ret.lines
           n == Len(lines)
           coded(line, c) ==
             /\ ThreeDigits(line)
             /\ DecVal(SubSeq(line, 1, 3)) = call.ret.code
             /\ At3(line, c)
       IN  /\ n >= 1
           /\ coded(lines[n], " ")
           /\ \A i \in 1..(n - 1) : coded(lines[i], "-")

\* C14, as the reader has it: every Reply has at least one line; its code is
\* read off the first three characters of the first line; a Reply of one
\* line has no hyphen at offset 3 of that line; a Reply of several lines
\* has the hyphen there, its last line begins with the first line's three
\* characters and a space, and no line between the two does.  The lines in
\* between are not looked at otherwise.
C14_ReplyShape ==
  (Called("readSmtpResponse") /\ call.ret.kind = "reply")
    => LET lines == call.ret.lines
           n == Len(lines)
           prefix == SubSeq(lines[1], 1, 3)
       IN  /\ n >= 1
           /\ Len(lines[1]) >= 3
           /\ ThreeDigits(lines[1]) => call.ret.code = DecVal(prefix)
           /\ IF n = 1
              THEN ~At3(lines[1], "-")
              ELSE /\ At3(lines[1], "-")
                   /\ startsWith(lines[n], Append(prefix, " "))
                   /\ \A i \in 2..(n - 1) : ~startsWith(lines[i], Append(prefix, " "))

\* A reply of three lines whose middle line carries another code and a space
C14_Witness ==
  /\ Called("readSmtpResponse")
  /\ call.ret.kind = "reply"
  /\ call.ret.lines = <<<<"2", "5", "0", "-", "a">>, <<"2", "5", "1", " ", "c">>, <<"2", "5", "0", " ", "o", "k">>>>

\* A reply that is the bare code, with nothing at offset 3
C14_WitnessBare ==
  /\ Called("readSmtpResponse")
  /\ call.ret = [kind |-> "reply", code |-> 250, lines |-> <<<<"2", "5", "0">>>>,
                 buffer |-> <<>>, chunks |-> <<>>]

\* C15: readSmtpResponse fails with the malformed-response error whenever
\* the first line does not start with three ASCII digits, and returns a
\* Reply only when it does.
C15_ThreeDigitsRequired ==
  (Called("readSmtpResponse") /\ Sent # <<>>)
    => /\ ~ThreeDigits(Sent[1]) => call.ret.kind = "malformed"
       /\ call.ret.kind = "reply" => ThreeDigits(Sent[1])

\* C16: a first line with a hyphen at offset 3 makes the reader go on to the
\* first later line that begins with the first line's code and a space, and
\* return that code with all the lines read, in order; a first line with
\* anything else, or nothing, at offset 3 is returned alone.
C16_MultilineFraming ==
  (Called("readSmtpResponse") /\ Sent # <<>> /\ ThreeDigits(Sent[1]))
    => LET code == DecVal(SubSeq(Sent[1], 1, 3))
       IN  IF At3(Sent[1], "-")
           THEN Terminators # {}
                  => LET last == CHOOSE i \in Terminators : \A j \in Terminators : i <= j
                     IN  /\ call.ret.kind = "reply"
                         /\ call.ret.code = code
                         /\ call.ret.lines = SubSeq(Sent, 1, last)
           ELSE /\ call.ret.kind = "reply"
                /\ call.ret.code = code
                /\ call.ret.lines = <<Sent[1]>>

\* The reader went past a line with another code and a space, stopped at
\* the line after it and left nothing unread
C16_Witness ==
  /\ Called("readSmtpResponse")
  /\ Sent = <<<<"2", "5", "0", "-", "a">>, <<"2", "5", "1", " ", "c">>, <<"2", "5", "0", " ", "o", "k">>>>
  /\ Len(call.arg) > 2
  /\ call.ret.kind = "reply"
  /\ Len(call.ret.lines) = 3

\* The reader stopped at the first of two lines that could end the reply
C16_WitnessFirstTerminator ==
  /\ Called("readSmtpResponse")
  /\ Sent # <<>>
  /\ Cardinality(Terminators) = 2
  /\ At3(Sent[1], "-")
  /\ call.ret.kind = "reply"
  /\ Len(call.ret.lines) = 2

\* A line the reader still needs is missing from the stream: the first
\* line, or the line that ends a reply whose first line was taken as a
\* continuation
LineMissing ==
  \/ Sent = <<>>
  \/ /\ Sent # <<>>
     /\ call.ret.kind # "malformed"
     /\ At3(Sent[1], "-")
     /\ Terminators = {}

\* C17: on every stream readSmtpResponse ends, with a Reply or with one of
\* its two errors; when the stream ends before a line it needs is complete
\* (no bytes, a line without its newline, a continuation never ended) it
\* throws the connection-closed error, and it throws that error in no
\* other case.
C17_ClosedStream ==
  /\ (call.fn = "readSmtpResponse" /\ ~call.done)
       => readSmtpResponse(call.arg).kind \in {"reply", "closed", "malformed"}
  /\ Called("readSmtpResponse")
       => /\ call.ret.kind \in {"reply", "closed", "malformed"}
          /\ LineMissing <=> call.ret.kind = "closed"

\* The stream ended inside the third line of a reply that was never ended
C17_Witness ==
  /\ Called("readSmtpResponse")
  /\ Len(Sent) = 2
  /\ At3(Sent[1], "-")
  /\ StreamOf(call.arg)[Len(StreamOf(call.arg))] # "\n"
  /\ call.ret.kind = "closed"
  /\ Len(call.ret.lines) = 2

(* ------------------------- parseSmtpCapabilities ------------------------ *)

\* A capability line with its code and separator stripped, trimmed and in
\* upper case
Advertised(line) == toUpperCase(trim(stripCode(line)))

\* `token` stands in `text` between whitespace or the ends of the text
HasToken(text, token) ==
  \E a \in 1..Len(text) :
    LET b == a + Len(token) - 1
    IN  /\ b <= Len(text)
        /\ SubSeq(text, a, b) = token
        /\ a = 1 \/ text[a - 1] \in Whitespace
        /\ b = Len(text) \/ text[b + 1] \in Whitespace

\* C18: parseSmtpCapabilities takes the first line that, with its code and
\* separator stripped, trimmed and uppercased, starts with "AUTH "; plain
\* and login say whether PLAIN and LOGIN are among the whitespace-separated
\* tokens after it; the letter case of the reply makes no difference; with
\* no such line both flags are false.
C18_AuthMechanisms ==
  Called("parseSmtpCapabilities")
    => LET lines == call.arg.lines
           auth == {i \in 1..Len(lines) : startsWith(Advertised(lines[i]), <<"A", "U", "T", "H", " ">>)}
           first == CHOOSE i \in auth : \A j \in auth : i <= j
           mechanisms == sliceFrom(Advertised(lines[first]), 5)
       IN  /\ auth = {} => call.ret = [plain |-> FALSE, login |-> FALSE]
           /\ auth # {} => /\ call.ret.plain = HasToken(mechanisms, <<"P", "L", "A", "I", "N">>)
                           /\ call.ret.login = HasToken(mechanisms, <<"L", "O", "G", "I", "N">>)
           /\ call.ret = parseSmtpCapabilities(
                           [call.arg EXCEPT !.lines = [i \in 1..Len(lines) |-> toUpperCase(lines[i])]])

\* The first AUTH line is in lower case and offers LOGIN alone; a later one
\* offers PLAIN as well
C18_Witness ==
  /\ Called("parseSmtpCapabilities")
  /\ call.arg.lines = <<<<"2", "5", "0", " ", "a", "u", "t", "h", " ", "l", "o", "g", "i", "n">>, <<"2", "5", "0", "-", "A", "U", "T", "H", " ", "P", "L", "A", "I", "N", " ", "L", "O", "G", "I", "N">>>>
  /\ call.ret = [plain |-> FALSE, login |-> TRUE]

(* -------------------------------- dotStuff ------------------------------ *)

\* The lines of a document that begin with a dot
DotLines(document) ==
  LET lines == split(document, CRLF)
  IN  {i \in 1..Len(lines) : startsWith(lines[i], <<".">>)}

\* C19: dotStuff returns as many CRLF-separated lines as it was given, in
\* the same order; a line that begins with a dot has one more dot in front,
\* any other line is unchanged; nothing else is added, and no line of the
\* result is the single dot of the DATA terminator.
C19_DotStuffLines ==
  Called("dotStuff")
    => LET given == split(call.arg, CRLF)
           stuffed == split(call.ret, CRLF)
       IN  /\ Len(stuffed) = Len(given)
           /\ \A i \in 1..Len(given) :
                stuffed[i] = IF startsWith(given[i], <<".">>)
                             THEN <<".">> \o given[i]
                             ELSE given[i]
           /\ Len(call.ret) = Len(call.arg) + Cardinality(DotLines(call.arg))
           /\ \A i \in 1..Len(stuffed) : stuffed[i] # <<".">>

\* A single dot and a line starting with a dot
C19_Witness ==
  /\ Called("dotStuff")
  /\ call.arg = <<".", "\r", "\n", ".", "a">>
  /\ call.ret = <<".", ".", "\r", "\n", ".", ".", "a">>

\* The message the send built, for the boundary it drew
BuiltMessage(uuid) ==
  createMessage(mail.from, mail.to, mail.subject, mail.text, mail.html, uuid)

BodyWrites == {i \in Writes : io[i].at = "body_write"}

\* C20: for every document with a line that begins with a dot, stuffing the
\* stuffed document changes it again (each such line has gained two dots);
\* a send writes its message stuffed once, in one write, and not stuffed
\* twice.  What was written does not change afterwards, so the write is
\* looked at in the state it leads to.
C20_StuffedOnce ==
  /\ (Called("dotStuff") /\ DotLines(call.arg) # {})
       => /\ dotStuff(call.ret) # call.ret
          /\ Len(dotStuff(call.ret)) = Len(call.arg) + 2 * Cardinality(DotLines(call.arg))
  /\ Cardinality(BodyWrites) <= 1
  /\ \A i \in BodyWrites :
       i = Len(io)
         => \E uuid \in Uuids :
              LET message == BuiltMessage(uuid)
                  once == dotStuff(message)
              IN  /\ io[i].data = once \o <<"\r", "\n", ".", "\r", "\n">>
                  /\ DotLines(message) # {}
                       => io[i].data # dotStuff(once) \o <<"\r", "\n", ".", "\r", "\n">>

\* A send wrote a message whose text has lines beginning with a dot
C20_Witness ==
  /\ pc = "queued_read"
  /\ BodyWrites = {Len(io)}
  /\ mail.text.value = <<".", "a", "\r", "\n", ".">>
  /\ \A uuid \in Uuids : Cardinality(DotLines(BuiltMessage(uuid))) = 2

\* dotStuff was called on a document of two lines beginning with a dot
C20_WitnessDocument ==
  /\ Called("dotStuff")
  /\ call.arg = <<".", "\r", "\n", ".", "a">>
  /\ dotStuff(call.ret) = <<".", ".", ".", "\r", "\n", ".", ".", ".", "a">>

\* The send has got past its port check
Started == pc # "idle" /\ config.port # 25

\* C23: as createMailer documents it, `secure: false` makes the session use
\* STARTTLS and `secure: true` makes it use implicit TLS, on every port a
\* send accepts.
C23_SecureFlagDecides ==
  Started
    => /\ config.secure = "false" => secureTransport = "starttls"
       /\ config.secure = "true" => secureTransport = "on"

\* The write at i is the DATA command
IsDataCommand(i) == io[i].op = "write" /\ io[i].data = <<"D", "A", "T", "A", "\r", "\n">>

\* C24: the body is written only right after the reply 354 to DATA, in one
\* write that is dotStuff(createMessage(mail)) followed by CRLF "." CRLF and
\* ends with the terminator once; when DATA is answered otherwise, nothing
\* is written after that reply.  What was written does not change
\* afterwards, so the content is looked at in the state the write leads to.
C24_BodyAfterGoAhead ==
  /\ Cardinality(BodyWrites) <= 1
  /\ \A i \in BodyWrites :
       /\ i >= 3
       /\ IsDataCommand(i - 2)
       /\ io[i - 1].op = "read" /\ io[i - 1].kind = "reply" /\ io[i - 1].code = 354
       /\ i = Len(io)
            => \E uuid \in Uuids :
                 LET stuffed == dotStuff(BuiltMessage(uuid))
                 IN  /\ io[i].data = stuffed \o CRLF \o <<".">> \o CRLF
                     /\ Len(io[i].data) = Len(stuffed) + 5
  /\ \A d \in Writes :
       (IsDataCommand(d) /\ d < Len(io) /\ ~(io[d + 1].kind = "reply" /\ io[d + 1].code = 354))
         => d + 1 = Len(io) /\ BodyWrites = {}

\* DATA was answered 250 and the send ended there
C24_Witness ==
  /\ Len(io) >= 2
  /\ IsDataCommand(Len(io) - 1)
  /\ io[Len(io)].kind = "reply"
  /\ io[Len(io)].code = 250
  /\ pc = "done"

\* The body went out after 354
C24_WitnessBody ==
  /\ BodyWrites = {Len(io)}
  /\ io[Len(io)].kind = "ok"

\* The writes that carry the credentials
CredentialWrites ==
  {i \in Writes : io[i].at \in {"authUser_write", "authPass_write"}
                    \/ (io[i].at = "auth" /\ startsWith(io[i].data, <<"A", "U", "T", "H", " ", "P", "L", "A", "I", "N", " ">>))}

\* C27: the AUTH PLAIN payload and the AUTH LOGIN user and password lines
\* are written only on an implicit-TLS handle or on the handle of the
\* upgraded socket, never on a plain connection or the pre-upgrade handle.
C27_CredentialsUnderTls ==
  \A i \in CredentialWrites :
    \/ secureTransport = "on"
    \/ /\ secureTransport = "starttls"
       /\ io[i].via = "tlsWriter"
       /\ \E j \in 1..(i - 1) : UpgradeAt(j)

\* The places of `pattern` in `s`
Occurrences(s, pattern) ==
  {i \in 1..(Len(s) - Len(pattern) + 1) : SubSeq(s, i, i + Len(pattern) - 1) = pattern}

\* The document createMessage returned, by its CRLF-delimited lines
MessageLines == split(call.ret, CRLF)

\* The five header lines of the document, with `contentType` as the last
HeaderBlock(contentType) ==
  join(<< <<"F", "r", "o", "m", ":", " ">> \o call.arg.from,
          <<"T", "o", ":", " ">> \o join(call.arg.to, <<",", " ">>),
          <<"S", "u", "b", "j", "e", "c", "t", ":", " ">> \o call.arg.subject,
          <<"M", "I", "M", "E", "-", "V", "e", "r", "s", "i", "o", "n", ":", " ", "1", ".", "0">>,
          <<"C", "o", "n", "t", "e", "n", "t", "-", "T", "y", "p", "e", ":", " ">> \o contentType >>, CRLF)

\* The boundary token of the call
Boundary == <<"c", "f", "-", "m", "a", "i", "l", "e", "r", "-">> \o call.arg.uuid

\* One part of a multipart body, from its delimiter line to the end of its
\* content
Part(type, content) ==
  <<"-", "-">> \o Boundary \o CRLF
    \o <<"C", "o", "n", "t", "e", "n", "t", "-", "T", "y", "p", "e", ":", " ">> \o type \o <<";", " ", "c", "h", "a", "r", "s", "e", "t", "=", "\"", "u", "t", "f", "-", "8", "\"">> \o CRLF
    \o CRLF
    \o content \o CRLF

\* The places of `line` among `lines`
LinesEqual(lines, line) == {i \in 1..Len(lines) : lines[i] = line}

\* C21: createMessage selects the body by which of text and html are there.
\* Both: a multipart/alternative document whose body is one text/plain part
\* and one text/html part, each behind a delimiter line of the same boundary,
\* closed by the line --<boundary>--. Html alone: a text/html body that is
\* the html. Text alone or neither: a text/plain body that is the text or
\* the empty string. In every case the document is the header block (From,
\* To, Subject, MIME-Version, Content-Type), one blank line and the body; for
\* a subject without a line break the first blank line of the document is
\* that separator.
C21_BodySelection ==
  Called("createMessage")
    => LET text == call.arg.text
           html == call.arg.html
           lines == MessageLines
           Document(contentType, body) == HeaderBlock(contentType) \o CRLF \o CRLF \o body
       IN  /\ (text.set /\ html.set)
                => /\ call.ret
                        = Document(<<"m", "u", "l", "t", "i", "p", "a", "r", "t", "/", "a", "l", "t", "e", "r", "n", "a", "t", "i", "v", "e", ";", " ", "b", "o", "u", "n", "d", "a", "r", "y", "=", "\"">> \o Boundary \o <<"\"">>,
                                   Part(<<"t", "e", "x", "t", "/", "p", "l", "a", "i", "n">>, text.value)
                                     \o Part(<<"t", "e", "x", "t", "/", "h", "t", "m", "l">>, html.value)
                                     \o <<"-", "-">> \o Boundary \o <<"-", "-">>)
                   /\ Cardinality(LinesEqual(lines, <<"-", "-">> \o Boundary)) = 2
                   /\ LinesEqual(lines, <<"-", "-">> \o Boundary \o <<"-", "-">>) = {Len(lines)}
                   /\ Cardinality(LinesEqual(lines, <<"C", "o", "n", "t", "e", "n", "t", "-", "T", "y", "p", "e", ":", " ", "t", "e", "x", "t", "/", "p", "l", "a", "i", "n", ";", " ", "c", "h", "a", "r", "s", "e", "t", "=", "\"", "u", "t", "f", "-", "8", "\"">>)) = 1
                   /\ Cardinality(LinesEqual(lines, <<"C", "o", "n", "t", "e", "n", "t", "-", "T", "y", "p", "e", ":", " ", "t", "e", "x", "t", "/", "h", "t", "m", "l", ";", " ", "c", "h", "a", "r", "s", "e", "t", "=", "\"", "u", "t", "f", "-", "8", "\"">>)) = 1
           /\ (html.set /\ ~text.set)
                => call.ret = Document(<<"t", "e", "x", "t", "/", "h", "t", "m", "l", ";", " ", "c", "h", "a", "r", "s", "e", "t", "=", "\"", "u", "t", "f", "-", "8", "\"">>, html.value)
           /\ ~html.set
                => call.ret = Document(<<"t", "e", "x", "t", "/", "p", "l", "a", "i", "n", ";", " ", "c", "h", "a", "r", "s", "e", "t", "=", "\"", "u", "t", "f", "-", "8", "\"">>,
                                       IF text.set THEN text.value ELSE <<>>)
           /\ Occurrences(call.arg.subject, CRLF) = {}
                => /\ Len(lines) >= 6
                   /\ lines[6] = <<>>
                   /\ \A i \in 1..5 : lines[i] # <<>>

\* Text and html were both given, the text of two lines
C21_Witness ==
  /\ Called("createMessage")
  /\ call.arg.text.set /\ call.arg.html.set
  /\ Occurrences(call.arg.text.value, CRLF) # {}
  /\ call.arg.subject = <<"H", "i">>

\* Neither text nor html was given
C21_WitnessNeither ==
  /\ Called("createMessage")
  /\ ~call.arg.text.set /\ ~call.arg.html.set
  /\ call.ret = HeaderBlock(<<"t", "e", "x", "t", "/", "p", "l", "a", "i", "n", ";", " ", "c", "h", "a", "r", "s", "e", "t", "=", "\"", "u", "t", "f", "-", "8", "\"">>) \o CRLF \o CRLF

\* C26: for every document createMessage builds, whatever the subject, the
\* text and the html, the DATA payload dotStuff(document) CRLF "." CRLF holds
\* the terminator CRLF "." CRLF exactly once, as its last five characters,
\* and no CRLF-delimited line of the stuffed document is a lone dot.
C26_TerminatorOnlyAtEnd ==
  Called("createMessage")
    => LET stuffed == dotStuff(call.ret)
           terminator == CRLF \o <<".">> \o CRLF
           payload == stuffed \o terminator
           lines == split(stuffed, CRLF)
       IN  /\ Occurrences(payload, terminator) = {Len(payload) - 4}
           /\ \A i \in 1..Len(lines) : lines[i] # <<".">>

\* The document has a line that is a lone dot, in the subject and in the text
C26_Witness ==
  /\ Called("createMessage")
  /\ call.arg.subject = <<"\r", "\n", ".", "\r", "\n">>
  /\ call.arg.text.set /\ call.arg.text.value = <<".", "\r", "\n", ".">>
  /\ Cardinality(LinesEqual(MessageLines, <<".">>)) >= 3

\* C25: reply framing does not depend on how the transport chunks the byte
\* stream: for two well-formed replies sent one after the other, however the
\* text is split into chunks, two successive calls of readSmtpResponse
\* return the first reply and then the second, and the first call leaves no
\* received character behind.
C25_ChunkingIndependent ==
  Called("readSmtpResponse twice")
    => /\ \A k \in 1..2 :
            /\ call.ret[k].kind = "reply"
            /\ call.ret[k].code = call.arg.replies[k].code
            /\ call.ret[k].lines = call.arg.replies[k].lines
       /\ call.ret[1].buffer = <<>>

\* One reply per chunk: both calls return their reply
C25_WitnessAligned ==
  /\ Called("readSmtpResponse twice")
  /\ Len(call.arg.chunks) = 2
  /\ call.ret[1].kind = "reply" /\ call.ret[1].buffer = <<>>
  /\ call.ret[2].kind = "reply" /\ call.ret[2].lines = call.arg.replies[2].lines

\* What the transport gave back at an event: the reply read, or how the
\* write went
Outcome(e) == [kind |-> e.kind, code |-> e.code, lines |-> e.lines]

\* What the send did at an event.  The bytes of the body hold the boundary
\* crypto.randomUUID() gave, which is no input of the send
Command(e) ==
  [op |-> e.op, via |-> e.via, at |-> e.at,
   data |-> IF e.at = "body_write" THEN <<>> ELSE e.data]

\* The first k events of the two sends had the same outcomes
SameOutcomes(a, b, k) == \A j \in 1..k : Outcome(a.io[j]) = Outcome(b.io[j])

====
